---- MODULE Spec2Model ----
(***************************************************************************)
(* A model of the per-shard core of the runtime: the future / promise /    *)
(* continuation handshake, the reactor's ready-task queue, and timers.     *)
(*                                                                         *)
(* reactor.hh, sleep.hh and the tests are modelled from their code.  The   *)
(* bodies of future.hh, timer-set.hh and reactor.cc are modelled from the  *)
(* design document; MODEL_MAP.json marks those definitions.                *)
(***************************************************************************)
EXTENDS Integers, Sequences, FiniteSets

\* ------------------------------------------------------------------ bounds
MaxPromises == 4        \* promise / future-state cells
MaxUserPromises == 2    \* promises the application itself constructs
MaxTasks == 2           \* plain tasks made with make_task
MaxTaskPromises == 2    \* cells used next to plain tasks
MaxSleeps == 1          \* calls of sleep()
MaxArms == 2            \* arm / arm_periodic calls on one timer
MaxDur == 2             \* longest duration handed to arm, arm_periodic, sleep
MaxClock == 4           \* last reading of the clock
queue_length == 2       \* slots of a ring (128 in the source)
batch_size == 2         \* smp_message_queue::batch_size (16 in the source)
MaxItems == 4           \* work items submitted in all
SpillRetryBudget == 1   \* flushes a spilled item may wait through
MaxFuncItems == 2       \* work items whose func may fail
MaxPublished == 3       \* items published to a reactor that may sleep
MaxPollers == 2         \* pollers registered with the reactor
max_aio == 2            \* reactor::max_aio, 128 in the source
MaxIo == 4              \* AIO requests submitted on the shard
_capacity == 1          \* io_queue::_capacity of the coordinator
MaxFqReqs == 5          \* requests sent to one I/O coordinator
MaxInflight == 1        \* forwarded requests on their way to the coordinator
MaxFile == 9            \* length of the file read
MaxOffset == 10         \* offset of a read
MaxRange == 5           \* range_size or len of a read
MaxBlocks == 2          \* blocks a short read returns
uint64_max == 63        \* std::numeric_limits<uint64_t>::max(), scaled down
MaxStreamFile == 6      \* length of the file under an input stream
MaxStreamStart == 7     \* start offset of an input stream
MaxStreamLen == 4       \* len of an input stream, when not unlimited
MaxReadAhead == 2       \* file_input_stream_options::read_ahead
MaxWriteBehind == 2     \* file_output_stream_options::write_behind
MaxSinkOps == 4         \* put, flush and close calls on one file output stream
MaxSubOps == 4          \* sub-operations of one parallel_for_each
MaxGets == 2            \* calls of get() in the function one fiber runs
max_waiters == 2        \* arp_for::max_waiters, 512 in the source
MaxLookups == 3         \* calls of arp_for::lookup
initial_step == 2       \* the step of the exploratory run of iotune, 4 in the source
initial_limit == 6      \* the end of the exploratory run of iotune, 512 in the source
MaxIops == 2            \* the IOPS one run measures
MaxRounds == 4          \* the runs of the threads of iotune
MaxCalls == 3           \* calls of arm, rearm and cancel on the application's timer
MaxPending == 4         \* ready tasks queued during draining
MaxBatch == 3           \* tasks counted in one batch

Cells == 1..MaxPromises
Values == {1}           \* what set_value may carry
Behs == {"ok", "throw"} \* what a callable may do
Sleepers == 1..MaxSleeps
UserTimers == {1}       \* the timer the application owns
Timers == UserTimers \cup {k + 1 : k \in Sleepers}
Durations == 1..MaxDur
Senders == {0, 1}       \* shards that submit work
Receiver == 2           \* the shard the work is submitted to
ItemNos == 1..MaxItems
FuncBehs == {"value", "throw", "fut_value", "fut_failed"}  \* what func may do

VARIABLES
    plimit,             \* how many cells the run may construct
    tracing,            \* whether the run keeps the event history
    nprom,              \* cells 1..nprom are constructed
    _state,             \* future_state of each cell: [st, pay]
    _future,            \* promise::_future: "none", "held", "used"
    _task,              \* promise::_task: the attached continuation
    owner,              \* who holds the promise: "user", "cont", "moved"
    fwd,                \* fwd[p] = q: promise p was move-assigned from q
    _pending_tasks,     \* reactor::_pending_tasks
    current,            \* the plain task being executed, 0 when none
    ntask,              \* plain tasks made so far
    log,                \* history of "add", "wake", "run" and "ret" events
    hist,               \* history of each cell, see Start
    now,                \* Clock::now()
    timer,              \* the timer objects: _armed, _queued, _expired, _expiry, _period
    _timers,            \* reactor::_timers: the timers in the timer set
    sleepers,           \* the sleeper objects made by sleep()
    thist,              \* history of each timer, see Start
    tlog,               \* history of the timer callbacks invoked
    smp,                \* the smp_message_queue of each sender, see smp_start
    wk,                 \* a receiving reactor going to sleep and its senders, see wk_start
    loop,               \* the reactor's main loop and its pollers, see loop_start
    aio,                \* the AIO context of a shard
    ioq,                \* the fair queue of an I/O coordinator
    rd,                 \* a bulk read of a file
    fin,                \* a file input stream
    sink,               \* a file output stream
    pfe,                \* a parallel_for_each
    th,                 \* fibers started by async
    app,                \* a run of app_template
    tq,                 \* draining under the task quota
    rt,                 \* calls on the application's timer
    arp,                \* arp_for: the table, the resolutions in progress, the futures of lookup
    mgr,                \* iotune_manager: the search for the concurrency
    tune                \* the threads of iotune and what synchronizes them

cfgVars == <<plimit, tracing>>
futVars == <<nprom, _state, _future, _task, owner, fwd>>
queueVars == <<_pending_tasks, current, ntask, log>>
timerVars == <<now, timer, _timers, sleepers, thist, tlog>>
restVars == <<smp, wk, loop, aio, ioq, rd, fin, sink, pfe, th, app, tq, rt, arp, mgr, tune>>
coreVars == <<cfgVars, futVars, queueVars, hist, timerVars>>
\* every variable but one
but_smp == <<coreVars, wk, loop, aio, ioq, rd, fin, sink, pfe, th, app, tq, rt, arp, mgr, tune>>
but_wk == <<coreVars, smp, loop, aio, ioq, rd, fin, sink, pfe, th, app, tq, rt, arp, mgr, tune>>
but_loop == <<coreVars, smp, wk, aio, ioq, rd, fin, sink, pfe, th, app, tq, rt, arp, mgr, tune>>
but_aio == <<coreVars, smp, wk, loop, ioq, rd, fin, sink, pfe, th, app, tq, rt, arp, mgr, tune>>
but_ioq == <<coreVars, smp, wk, loop, aio, rd, fin, sink, pfe, th, app, tq, rt, arp, mgr, tune>>
but_rd == <<coreVars, smp, wk, loop, aio, ioq, fin, sink, pfe, th, app, tq, rt, arp, mgr, tune>>
but_fin == <<coreVars, smp, wk, loop, aio, ioq, rd, sink, pfe, th, app, tq, rt, arp, mgr, tune>>
but_sink == <<coreVars, smp, wk, loop, aio, ioq, rd, fin, pfe, th, app, tq, rt, arp, mgr, tune>>
but_pfe == <<coreVars, smp, wk, loop, aio, ioq, rd, fin, sink, th, app, tq, rt, arp, mgr, tune>>
but_th == <<coreVars, smp, wk, loop, aio, ioq, rd, fin, sink, pfe, app, tq, rt, arp, mgr, tune>>
but_app == <<coreVars, smp, wk, loop, aio, ioq, rd, fin, sink, pfe, th, tq, rt, arp, mgr, tune>>
but_tq == <<coreVars, smp, wk, loop, aio, ioq, rd, fin, sink, pfe, th, app, rt, arp, mgr, tune>>
but_rt == <<coreVars, smp, wk, loop, aio, ioq, rd, fin, sink, pfe, th, app, tq, arp, mgr, tune>>
but_arp == <<coreVars, smp, wk, loop, aio, ioq, rd, fin, sink, pfe, th, app, tq, rt, mgr, tune>>
but_mgr == <<coreVars, smp, wk, loop, aio, ioq, rd, fin, sink, pfe, th, app, tq, rt, arp, tune>>
but_tune == <<coreVars, smp, wk, loop, aio, ioq, rd, fin, sink, pfe, th, app, tq, rt, arp, mgr>>
restButRt == <<smp, wk, loop, aio, ioq, rd, fin, sink, pfe, th, app, tq, arp, mgr, tune>>
but_mgr_tune == <<coreVars, smp, wk, loop, aio, ioq, rd, fin, sink, pfe, th, app, tq, rt, arp>>
vars == <<plimit, tracing, nprom, _state, _future, _task, owner, fwd, _pending_tasks,
          current, ntask, log, hist, now, timer, _timers, sleepers, thist, tlog,
          smp, wk, loop, aio, ioq, rd, fin, sink, pfe, th, app, tq, rt, arp, mgr, tune>>

\* ------------------------------------------------------------- task records
Pending == [st |-> "pending", pay |-> 0]
Value(v) == [st |-> "value", pay |-> v]
Failed(e) == [st |-> "failed", pay |-> e]
Available(o) == o.st # "pending"

NoTask == [id |-> 0, hi |-> FALSE, kind |-> "none", beh |-> "none", arg |-> 0,
           pr |-> 0, st |-> "pending", pay |-> 0]

\* make_task(func): a callable with no future state
make_task(k, h) == [NoTask EXCEPT !.id = k, !.hi = h, !.kind = "plain"]

\* continuation<Func, T...>: the callable, the promise of its result, its state
continuation(p, kind, beh, arg, pr) ==
    [NoTask EXCEPT !.id = p, !.kind = kind, !.beh = beh, !.arg = arg, !.pr = pr]

\* ------------------------------------------------------------- ready queue
add_task_twice(q, t) == Append(Append(q, t), t)
add_task_front(q, t) == <<t>> \o q
add_task_lost(q, t) == q

\* reactor::add_task: _pending_tasks.push_back(std::move(t))
add_task(q, t) == Append(q, t)

\* reactor::add_high_priority_task: ahead of the regular queue
add_high_priority_task(q, t) == <<t>> \o q

QCount(q, x) == Cardinality({i \in 1..Len(q) : q[i].id = x})

\* history events: what happened, to which task, and inside which task
Ev(e, x, h, c) == [ev |-> e, id |-> x, hi |-> h, in |-> c]

\* ------------------------------------------------- future / promise / task
\* The (promise, future, continuation) triangle of the cells, with the queue.
Heap == [s |-> _state, t |-> _task, q |-> _pending_tasks, f |-> fwd, l |-> log,
         tr |-> tracing, g |-> hist.given]
Record(H, e) == IF H.tr THEN Append(H.l, e) ELSE H.l

RECURSIVE Target(_, _)
\* the promise object that now stands for p (after promise move-assignment)
Target(f, p) == IF f[p] = 0 THEN p ELSE Target(f, f[p])

\* promise::set_value / set_exception: store the outcome; a continuation that is
\* attached goes to the ready-task queue
promise_set(H, p, o, cur) ==
    LET t == Target(H.f, p) IN
    IF H.t[t] = NoTask
    THEN [H EXCEPT !.s[t] = o, !.g[p] = o]
    ELSE [H EXCEPT !.s[t] = o, !.g[p] = o,
                   !.t[t] = NoTask,
                   !.q = add_task(H.q, [H.t[t] EXCEPT !.st = o.st, !.pay = o.pay]),
                   !.l = Record(H, Ev("wake", t, FALSE, cur))]

\* future::schedule: a ready future schedules the continuation at once, a
\* not-ready one installs it on the upstream promise
future_schedule(H, p, c, cur) ==
    IF Available(H.s[p])
    THEN [H EXCEPT !.q = add_task(H.q, [c EXCEPT !.st = H.s[p].st, !.pay = H.s[p].pay]),
                   !.l = Record(H, Ev("add", p, FALSE, cur))]
    ELSE [H EXCEPT !.t[p] = c]

\* future::forward_to(promise&& pr)
future_forward_to(H, p1, p2, cur) ==
    IF Available(H.s[p1])
    THEN promise_set(H, p2, H.s[p1], cur)
    ELSE [H EXCEPT !.f[p1] = p2]

\* whether running task t invokes its callable
Invokes(t) == t.kind \in {"then_wrapped", "finally"} \/ t.st = "value"

\* what the callable of then / then_wrapped does to the result promise
func_result(H, t) ==
    CASE t.beh = "ok" -> promise_set(H, t.pr, Value(3), t.id)
      [] t.beh = "throw" -> promise_set(H, t.pr, Failed(t.id), t.id)
      [] t.beh = "fut" -> future_forward_to(H, t.arg, t.pr, t.id)
      [] t.beh = "delete" -> promise_set(H, t.pr, Value(0), t.id)

\* finally(action): the action always runs; its failure supersedes a success
\* and not a failure
finally_body(H, t) ==
    LET o == [st |-> t.st, pay |-> t.pay] IN
    IF t.beh = "throw" /\ t.st = "value"
    THEN promise_set(H, t.pr, Failed(t.id), t.id)
    ELSE promise_set(H, t.pr, o, t.id)

\* continuation::run
run_continuation(H, t) ==
    CASE t.kind = "then" ->
            IF t.st = "failed"
            THEN promise_set(H, t.pr, Failed(t.pay), t.id)
            ELSE func_result(H, t)
      [] t.kind = "then_wrapped" -> func_result(H, t)
      [] t.kind = "finally" -> finally_body(H, t)

\* write a heap back; h is the history with everything but .given updated
Store(H, h) ==
    /\ _state' = H.s
    /\ _task' = H.t
    /\ _pending_tasks' = H.q
    /\ fwd' = H.f
    /\ log' = H.l
    /\ hist' = [h EXCEPT !.given = H.g]

\* ------------------------------------------------------------------ timers
NoTimer == [_armed |-> FALSE, _queued |-> FALSE, _expired |-> FALSE, _expiry |-> 0,
            _period |-> 0]
NoSleeper == [done |-> 0, res |-> 0, at |-> 0, dur |-> 0, freed |-> FALSE]

\* sleeper::tmr of sleeper k, and the sleeper that owns timer t
tmr(k) == k + 1
SleeperOf(t) == t - 1

\* the timer objects with the reactor's timer set
Wheel == [tm |-> timer, set |-> _timers]

\* reactor::add_timer, queue_timer, del_timer
add_timer(set, t) == set \cup {t}
queue_timer(set, t) == set \cup {t}
del_timer(set, t) == set \ {t}

arm_state_stale(tm, until, period) ==
    [tm EXCEPT !._period = period, !._armed = TRUE, !._expired = FALSE, !._queued = TRUE]

\* timer::arm_state(until, period); the caller sees to assert(!_armed)
arm_state(tm, until, period) ==
    [tm EXCEPT !._period = period, !._armed = TRUE, !._expired = FALSE,
               !._expiry = until, !._queued = TRUE]

\* timer::arm(until, period)
arm(W, t, until, period) ==
    [W EXCEPT !.tm[t] = arm_state(W.tm[t], until, period), !.set = add_timer(W.set, t)]

arm_duration_none(W, t, clk, delta) == arm(W, t, clk, 0)

\* timer::arm(duration delta)
arm_duration(W, t, clk, delta) == arm(W, t, clk + delta, 0)

\* timer::arm_periodic(delta)
arm_periodic(W, t, clk, delta) == arm(W, t, clk + delta, delta)

readd_periodic_now(W, t, clk) ==
    [W EXCEPT !.tm[t] = arm_state(W.tm[t], clk, W.tm[t]._period),
              !.set = queue_timer(W.set, t)]

\* timer::readd_periodic
readd_periodic(W, t, clk) ==
    [W EXCEPT !.tm[t] = arm_state(W.tm[t], clk + W.tm[t]._period, W.tm[t]._period),
              !.set = queue_timer(W.set, t)]

\* timer::~timer
timer_dtor(W, t) == IF W.tm[t]._queued THEN [W EXCEPT !.set = del_timer(W.set, t)] ELSE W

\* timer::cancel; it returns whether the timer was armed
cancel(W, t) ==
    IF ~W.tm[t]._armed THEN W
    ELSE [W EXCEPT !.tm[t]._armed = FALSE, !.tm[t]._queued = FALSE,
                   !.set = IF W.tm[t]._queued THEN del_timer(W.set, t) ELSE W.set]

rearm_cancels_never(W, t) == W

\* timer::rearm: an armed timer is cancelled first
rearm_cancels(W, t) == IF W.tm[t]._armed THEN cancel(W, t) ELSE W

\* timer::rearm(until, period)
rearm(W, t, until, period) == arm(rearm_cancels(W, t), t, until, period)

\* what timer::cancel returns
cancel_returns(W, t) == W.tm[t]._armed

\* what the calls on the application's timer met
rt_start ==
    [ret |-> "none",          \* what the last cancel() returned: none, true, false
     was_armed |-> FALSE,     \* whether the timer was armed at that call
     cancelled |-> FALSE,     \* cancel() was called and no arm() or rearm() since
     narm0 |-> 0,             \* the re-arms of a periodic timer before that cancel()
     assert_failed |-> FALSE, \* arm_state met an armed timer
     double_add |-> FALSE,    \* add_timer met a timer that is in the set
     until |-> 0,             \* the expiry the last arm or rearm asked for
     fired0 |-> 0,            \* the callbacks fired before that call
     calls |-> 0,             \* the calls made
     last |-> "none"]         \* the last call: none, arm, rearm, cancel

\* the asserts on the way of a call of arm or rearm, W the state arm() meets
rt_armed(R, W, t, call, until, fired) ==
    [R EXCEPT !.cancelled = FALSE, !.last = call, !.until = until, !.fired0 = fired,
              !.calls = @ + 1,
              !.assert_failed = @ \/ W.tm[t]._armed,
              !.double_add = @ \/ t \in W.set]

\* the task that invokes the callback of timer t, expired at exp
TimerTaskId(t) == MaxPromises + MaxTasks + t
timer_task(t, exp, readd) ==
    [NoTask EXCEPT !.id = TimerTaskId(t), !.kind = "timer",
                   !.beh = IF readd THEN "readd" ELSE "once", !.arg = t, !.pay = exp]

StoreWheel(W) == timer' = W.tm /\ _timers' = W.set

\* ----------------------------------------------------- smp_message_queue
Min(a, b) == IF a < b THEN a ELSE b

\* futurize<T>::apply(func): what calling func gives: a ready future, a future
\* that resolves later, or an exception thrown out of the call
futurize_apply(beh) ==
    CASE beh = "value" -> "value"
      [] beh = "throw" -> "thrown"
      [] OTHER -> "pending"

\* what the future that func returned resolves to
func_future(beh) == IF beh = "fut_value" THEN "value" ELSE "failed"

\* what func produced in the end
Produced(beh) == IF beh \in {"value", "fut_value"} THEN "value" ELSE "failed"

\* async_work_item: who submitted it, its number, what _func does, and what
\* process() left in it: "none", "value" (_result) or "failed" (_ex)
\* pfail: whether the future that process() returned has failed
work_item(a, n, beh) == [from |-> a, n |-> n, beh |-> beh, out |-> "none", pfail |-> FALSE]

\* the queues of every sender after smp_message_queue::smp_message_queue
smp_start ==
    [pending_fifo |-> [a \in Senders |-> <<>>],     \* _tx.a.pending_fifo
     _pending |-> [a \in Senders |-> <<>>],         \* the request ring
     running |-> [a \in Senders |-> {}],            \* items between process() and respond()
     _completed_fifo |-> [a \in Senders |-> <<>>],
     _completed |-> [a \in Senders |-> <<>>],       \* the response ring
     _promise |-> [a \in Senders |-> [n \in ItemNos |-> "pending"]],
     nsub |-> [a \in Senders |-> 0],                \* items submitted
     beh |-> [a \in Senders |-> [n \in ItemNos |-> "none"]],  \* what their func does
     local |-> [beh |-> "none", out |-> "none"],    \* the last submit_to the own shard
     nexec |-> [a \in Senders |-> [n \in ItemNos |-> 0]],  \* runs of process()
     nset |-> [a \in Senders |-> [n \in ItemNos |-> 0]],   \* runs of complete()
     waited |-> [a \in Senders |-> [n \in ItemNos |-> 0]], \* flushes that left it spilled
     executed |-> <<>>]                             \* the items in the order the receiver ran them

spsc_push_front(ring, items) ==
    LET k == Min(queue_length - Len(ring), Len(items)) IN
    [q |-> SubSeq(items, 1, k) \o ring, rest |-> SubSeq(items, k + 1, Len(items))]

spsc_push_drop(ring, items) ==
    LET k == Min(queue_length - Len(ring), Len(items)) IN
    [q |-> ring \o SubSeq(items, 1, k), rest |-> <<>>]

\* lf_queue_base::push(begin, end): as many as there is room for, in order;
\* rest is what did not fit
spsc_push(ring, items) ==
    LET k == Min(queue_length - Len(ring), Len(items)) IN
    [q |-> ring \o SubSeq(items, 1, k), rest |-> SubSeq(items, k + 1, Len(items))]

\* count one more flush that item w waited through, up to the budget + 1
Waited(Q, rest) ==
    [a \in Senders |-> [n \in ItemNos |->
        IF \E i \in 1..Len(rest) : rest[i].from = a /\ rest[i].n = n
        THEN Min(Q.waited[a][n] + 1, SpillRetryBudget + 1) ELSE Q.waited[a][n]]]

\* smp_message_queue::move_pending
move_pending(Q, a) ==
    LET r == spsc_push(Q._pending[a], Q.pending_fifo[a]) IN
    [Q EXCEPT !._pending[a] = r.q, !.pending_fifo[a] = r.rest,
              !.waited = Waited(Q, r.rest)]

\* smp_message_queue::submit_item
submit_item(Q, a, wi) ==
    LET Q1 == [Q EXCEPT !.pending_fifo[a] = Append(@, wi)] IN
    IF Len(Q1.pending_fifo[a]) >= batch_size THEN move_pending(Q1, a) ELSE Q1

\* smp_message_queue::flush_request_batch
flush_request_batch(Q, a) ==
    IF Q.pending_fifo[a] # <<>> THEN move_pending(Q, a) ELSE Q

\* smp_message_queue::flush_response_batch
flush_response_batch(Q, a) ==
    LET r == spsc_push(Q._completed[a], Q._completed_fifo[a]) IN
    [Q EXCEPT !._completed[a] = r.q, !._completed_fifo[a] = r.rest]

\* smp_message_queue::respond
respond(Q, a, wi) ==
    LET Q1 == [Q EXCEPT !._completed_fifo[a] = Append(@, wi)] IN
    IF Len(Q1._completed_fifo[a]) >= batch_size THEN flush_response_batch(Q1, a) ELSE Q1

process_nocatch(wi) ==
    IF futurize_apply(wi.beh) = "thrown" THEN [wi EXCEPT !.pfail = TRUE] ELSE wi

\* async_work_item::process: a _func that throws leaves _ex and a ready
\* future; otherwise the then_wrapped continuation will store the outcome
process(wi) ==
    IF futurize_apply(wi.beh) = "thrown" THEN [wi EXCEPT !.out = "failed"] ELSE wi

process_result_nocatch(wi) ==
    LET f == IF futurize_apply(wi.beh) = "value" THEN "value" ELSE func_future(wi.beh) IN
    IF f = "value" THEN [wi EXCEPT !.out = "value"] ELSE [wi EXCEPT !.pfail = TRUE]

\* the then_wrapped continuation of process(): _result = f.get(), or _ex when
\* f.get() throws
process_result(wi) ==
    LET f == IF futurize_apply(wi.beh) = "value" THEN "value" ELSE func_future(wi.beh) IN
    IF f = "value" THEN [wi EXCEPT !.out = "value"] ELSE [wi EXCEPT !.out = "failed"]

submit_to_local_nocatch(beh) ==
    CASE futurize_apply(beh) = "thrown" -> "escaped"
      [] futurize_apply(beh) = "value" -> "value"
      [] OTHER -> "pending"

\* smp::submit_to with t == engine().cpu_id(): the future it returns, or
\* "escaped" when an exception leaves submit_to
submit_to_local(beh) ==
    CASE futurize_apply(beh) = "thrown" -> "failed"
      [] futurize_apply(beh) = "value" -> "value"
      [] OTHER -> "pending"

complete_ex(wi) == "failed"

\* async_work_item::complete: what the promise on the local side is given
complete(wi) == IF wi.out = "value" THEN "value" ELSE "failed"

RECURSIVE process_incoming_items(_, _, _)
process_incoming_items(Q, a, items) ==
    IF items = <<>> THEN Q
    ELSE LET wi == Head(items) IN
         process_incoming_items(
             [Q EXCEPT !.running[a] = @ \cup {process(wi)},
                       !.nexec[a][wi.n] = @ + 1,
                       !.executed = Append(@, <<a, wi.n>>)],
             a, Tail(items))

\* smp_message_queue::process_incoming: up to batch_size items leave the ring
\* and have process() called, in ring order
process_incoming(Q, a) ==
    LET k == Min(batch_size, Len(Q._pending[a])) IN
    process_incoming_items([Q EXCEPT !._pending[a] = SubSeq(@, k + 1, Len(@))],
                           a, SubSeq(Q._pending[a], 1, k))

RECURSIVE process_completion_items(_, _, _)
process_completion_items(Q, a, items) ==
    IF items = <<>> THEN Q
    ELSE LET wi == Head(items) IN
         process_completion_items(
             [Q EXCEPT !._promise[a][wi.n] = complete(wi), !.nset[a][wi.n] = @ + 1],
             a, Tail(items))

\* smp_message_queue::process_completions: complete() and delete each item
process_completions(Q, a) ==
    LET k == Min(batch_size, Len(Q._completed[a])) IN
    process_completion_items([Q EXCEPT !._completed[a] = SubSeq(@, k + 1, Len(@))],
                             a, SubSeq(Q._completed[a], 1, k))

RECURSIVE poll_rx(_, _)
\* smp::poll_queues on the receiver: the rxq half of the loop, per sender
poll_rx(Q, todo) ==
    IF todo = {} THEN Q
    ELSE LET a == CHOOSE x \in todo : \A y \in todo : x <= y IN
         poll_rx(process_incoming(flush_response_batch(Q, a), a), todo \ {a})

\* smp::poll_queues on a sender: the txq half of the loop
poll_tx(Q, a) == process_completions(flush_request_batch(Q, a), a)

\* ------------------------------------------------- sleeping and wakeup
\* a reactor that may sleep, its request rings seen as one, and its senders
wk_start ==
    [ring |-> <<>>,                           \* items published and not yet processed
     _sleeping |-> FALSE,                     \* reactor::_sleeping
     eventfd |-> 0,                           \* the count of the wakeup eventfd
     rpc |-> "poll",                          \* the reactor: poll, idle, flagged, blocked
     spc |-> [a \in Senders |-> "idle"],      \* each sender: idle, pushed
     npub |-> 0,                              \* items published
     nproc |-> 0]                             \* items processed

\* reactor::wakeup: write the eventfd
wakeup(W) == [W EXCEPT !.eventfd = 1]

maybe_wakeup_blind(W) == W

\* lf_queue::maybe_wakeup, after the push: a receiver seen sleeping has its
\* flag cleared and is woken
maybe_wakeup(W) == IF W._sleeping THEN wakeup([W EXCEPT !._sleeping = FALSE]) ELSE W

\* the smp poller's poll(): process what is in the ring
wk_poll(W) == [W EXCEPT !.ring = <<>>, !.nproc = @ + Len(W.ring)]

try_enter_interrupt_mode_unchecked(W) == [W EXCEPT !.rpc = "blocked"]

\* the smp poller's try_enter_interrupt_mode, after _sleeping is set: a last
\* poll; when it finds work the reactor does not sleep
try_enter_interrupt_mode(W) ==
    IF W.ring # <<>>
    THEN [wk_poll(W) EXCEPT !._sleeping = FALSE, !.rpc = "poll"]
    ELSE [W EXCEPT !.rpc = "blocked"]

\* ------------------------------------------------------ the reactor loop
loop_start ==
    [_pollers |-> <<>>,       \* reactor::_pollers: whether each overrides try_enter_interrupt_mode
     phase |-> "tasks",       \* tasks, idle, blocked
     polled |-> <<>>,         \* what poll() of each poller returned in this turn
     entered |-> {},          \* the pollers in interrupt mode
     stray |-> FALSE,         \* exit_interrupt_mode() went to a poller not in interrupt mode
     polled_in_mode |-> FALSE, \* poll() was called on a poller in interrupt mode
     rolled |-> FALSE]        \* pollers that had entered left again because a later one refused

pollfn_default_true(overrides, ans) == IF overrides THEN ans ELSE TRUE

\* pollfn::try_enter_interrupt_mode: the default returns false, a poller that
\* overrides it answers for itself
pollfn_try_enter_interrupt_mode(overrides, ans) == IF overrides THEN ans ELSE FALSE

\* reactor::poll_once: every poller polls; whether any of them did work
poll_once(res) == \E p \in DOMAIN res : res[p]

\* the pollers that agree to interrupt mode before the first that refuses
Entered(L, ans) ==
    {p \in DOMAIN L._pollers :
        \A q \in 1..p : pollfn_try_enter_interrupt_mode(L._pollers[q], ans[q])}

exit_also_refuser(L, E) ==
    LET X == E \cup {p \in DOMAIN L._pollers : \A q \in 1..(p - 1) : q \in E} IN
    [L EXCEPT !.entered = @ \ X, !.stray = @ \/ ~(X \subseteq L.entered)]

\* exit_interrupt_mode() is called on the pollers in E
exit_interrupt_mode(L, E) ==
    [L EXCEPT !.entered = @ \ E, !.stray = @ \/ ~(E \subseteq L.entered)]

sleep_anyway(L, ans) == [L EXCEPT !.phase = "blocked", !.entered = Entered(L, ans)]

\* the reactor's sleep: every poller is asked to enter interrupt mode; when
\* one refuses, those that entered leave it again and the loop goes on
reactor_sleep(L, ans) ==
    LET E == Entered(L, ans)
        L1 == [L EXCEPT !.entered = E] IN
    IF E = DOMAIN L._pollers
    THEN [L1 EXCEPT !.phase = "blocked"]
    ELSE [exit_interrupt_mode(L1, E) EXCEPT !.phase = "tasks", !.rolled = @ \/ E # {}]

\* ---------------------------------------------------------------- AIO context
Reqs == 1..MaxIo

aio_start ==
    [sem |-> max_aio,                 \* count of reactor::_io_context_available
     waiters |-> <<>>,                \* callers waiting on the semaphore, oldest first
     _pending_aio |-> <<>>,           \* reactor::_pending_aio: iocbs to be submitted
     st |-> [r \in Reqs |-> "none"],  \* none, waiting, acquired, queued, submitted, done
     took |-> [r \in Reqs |-> 0],     \* units the request has acquired
     rel |-> [r \in Reqs |-> 0],      \* units returned on behalf of the request
     waited |-> {},                   \* the requests that found no unit free
     nreq |-> 0]

\* semaphore::wait(1): a unit is taken when one is free and nobody waits,
\* otherwise the caller joins the waiters
semaphore_wait(A, r) ==
    IF A.sem >= 1 /\ A.waiters = <<>>
    THEN [A EXCEPT !.sem = @ - 1, !.st[r] = "acquired", !.took[r] = @ + 1]
    ELSE [A EXCEPT !.waiters = Append(@, r), !.st[r] = "waiting",
                   !.waited = @ \cup {r}]

\* the waiters are served oldest first while units last
RECURSIVE wake_waiters(_)
wake_waiters(A) ==
    IF A.waiters = <<>> \/ A.sem < 1 THEN A
    ELSE LET r == Head(A.waiters) IN
         wake_waiters([A EXCEPT !.sem = @ - 1, !.waiters = Tail(@),
                                !.st[r] = "acquired", !.took[r] = @ + 1])

\* semaphore::signal(n)
semaphore_signal(A, n) == wake_waiters([A EXCEPT !.sem = @ + n])

\* the continuation of the wait in submit_io: the prepared iocb is pushed to
\* the pending-AIO vector
submit_io_queue(A, r) ==
    [A EXCEPT !._pending_aio = Append(@, r), !.st[r] = "queued"]

\* flush_pending_aio: io_submit takes the first k pending iocbs
flush_pending_aio(A, k) ==
    [A EXCEPT !._pending_aio = SubSeq(@, k + 1, Len(@)),
              !.st = [r \in Reqs |->
                        IF \E i \in 1..k : A._pending_aio[i] = r
                        THEN "submitted" ELSE @[r]]]

process_io_nosignal(A, evs) ==
    [A EXCEPT !.st = [r \in Reqs |-> IF r \in evs THEN "done" ELSE @[r]]]

\* process_io: io_getevents returned the events evs; the promise of each is
\* fulfilled and the semaphore is signalled once per event
process_io(A, evs) ==
    semaphore_signal(
        [A EXCEPT !.st = [r \in Reqs |-> IF r \in evs THEN "done" ELSE @[r]],
                  !.rel = [r \in Reqs |-> IF r \in evs THEN @[r] + 1 ELSE @[r]]],
        Cardinality(evs))

\* ------------------------------------------------------------ fair I/O queue
Classes == {1, 2}                      \* ids of the registered priority classes
Shares == <<1, 2>>                     \* io_queue::_registered_shares
Sizes == {1, 2}                        \* sizes of the requests
Origins == {"local", "forwarded"}      \* the coordinator itself, or another shard

ioq_start ==
    [fifo |-> [c \in Classes |-> <<>>],   \* the queued requests of each class
     cost |-> [c \in Classes |-> 0],      \* accumulated cost of each class
     executing |-> {},                    \* dispatched and not yet completed
     inflight |-> <<>>,                   \* forwarded requests on their way
     nenq |-> [c \in Classes |-> 0],      \* requests of the class queued so far
     ndisp |-> [c \in Classes |-> 0],     \* requests of the class dispatched so far
     last |-> <<>>,                       \* the dispatches of the last step
     nreq |-> 0]

fq_request(c, size, from) == [cls |-> c, size |-> size, from |-> from, no |-> 0]

\* the classes with queued requests
Active(Q) == {c \in Classes : Q.fifo[c] # <<>>}

before_or_equal(Q, c, d) == Q.cost[c] * Shares[d] <= Q.cost[d] * Shares[c]

\* the order of the heap of classes: accumulated cost / shares, compared
\* without division
before(Q, c, d) == Q.cost[c] * Shares[d] < Q.cost[d] * Shares[c]

\* the top of the heap among the classes cs: the classes are visited by
\* ascending id and a class replaces the best so far only when strictly before it
RECURSIVE top_class(_, _, _)
top_class(Q, cs, best) ==
    IF cs = {} THEN best
    ELSE LET c == CHOOSE x \in cs : \A y \in cs : x <= y IN
         top_class(Q, cs \ {c}, IF best = 0 \/ before(Q, c, best) THEN c ELSE best)

pop_priority_class(Q) == top_class(Q, Active(Q), 0)

\* what a dispatch records: the request, and the queue it was chosen from
Dispatch(Q, c, r, charged) ==
    [cls |-> c, no |-> r.no, size |-> r.size, from |-> r.from,
     active |-> Active(Q), head |-> [d \in Classes |->
                  IF Q.fifo[d] = <<>> THEN 0 ELSE Head(Q.fifo[d]).no],
     ndisp |-> Q.ndisp[c], cost |-> Q.cost, after |-> charged]

\* one dispatch: the head of the top class leaves its FIFO, takes a slot and
\* its size is charged to the class
dispatch_one(Q) ==
    LET c == pop_priority_class(Q)
        r == Head(Q.fifo[c])
        charged == [Q.cost EXCEPT ![c] = @ + r.size] IN
    [Q EXCEPT !.fifo[c] = Tail(@),
              !.cost = charged,
              !.executing = @ \cup {<<c, r.no>>},
              !.ndisp[c] = @ + 1,
              !.last = Append(@, Dispatch(Q, c, r, charged))]

RECURSIVE dispatch_requests_unbounded(_)
dispatch_requests_unbounded(Q) ==
    IF Active(Q) = {} THEN Q
    ELSE dispatch_requests_unbounded(dispatch_one(Q))

\* requests are dispatched while some are queued and a slot is free
RECURSIVE dispatch_requests(_)
dispatch_requests(Q) ==
    IF Active(Q) = {} \/ Cardinality(Q.executing) >= _capacity THEN Q
    ELSE dispatch_requests(dispatch_one(Q))

\* the request joins the FIFO of its class, numbered in the order of
\* queueing, and the queue dispatches
fq_queue(Q, r) ==
    dispatch_requests(
        [Q EXCEPT !.fifo[r.cls] = Append(@, [r EXCEPT !.no = Q.nenq[r.cls] + 1]),
                  !.nenq[r.cls] = @ + 1,
                  !.last = <<>>])

\* a dispatched request completed: its slot is free and the queue dispatches
notify_requests_finished(Q, x) ==
    dispatch_requests([Q EXCEPT !.executing = @ \ {x}, !.last = <<>>])

\* ------------------------------------------------------------- file: bulk read
Alignments == {2, 4}        \* disk_read_dma_alignment: powers of two, 4096 in the source
Garbage == 0 - 1            \* a byte of a buffer that no read has filled

\* a & b on unsigned integers
RECURSIVE bit_and(_, _)
bit_and(a, b) ==
    IF a = 0 \/ b = 0 THEN 0
    ELSE (a % 2) * (b % 2) + 2 * bit_and(a \div 2, b \div 2)

align_up(v, align) == ((v + align - 1) \div align) * align

\* the file holds at each position the number of the position
FileBytes(from, n) == [i \in 1..n |-> from + i - 1]

\* temporary_buffer::trim and trim_front
trim(buf, n) == SubSeq(buf, 1, n)
trim_front(buf, n) == SubSeq(buf, n + 1, Len(buf))

rd_start ==
    [phase |-> "idle",       \* idle, first, loop, done, failed
     op |-> "none",          \* dma_read_bulk or dma_read
     length |-> 0,           \* the length of the file
     align |-> 2,            \* disk_read_dma_alignment()
     offset |-> 0,           \* the arguments of the call
     range_size |-> 0,
     buf |-> <<>>,           \* read_state: buf, pos, eof, _offset, _to_read, _front
     pos |-> 0,
     eof |-> FALSE,
     _offset |-> 0,
     _to_read |-> 0,
     _front |-> 0,
     short |-> FALSE,        \* a read returned less than asked before the file end
     einval |-> FALSE,       \* a read past the file end failed with EINVAL
     result |-> <<>>,
     err |-> "none",         \* the error the future of the bulk read failed with
     rounds |-> 0,           \* rounds of the read-copy sequence
     last |-> [err |-> "none", n |-> 0, failed |-> FALSE, buf |-> <<>>]]
                             \* the last read_maybe_eof: the outcome of its dma_read
                             \* (error, bytes read) and of its future

\* file_impl::read_dma of a direct-I/O file of length F: an unaligned
\* position or length fails with EINVAL; the read returns the bytes up to the
\* file end, or, on a short read, k whole blocks
read_dma(F, pos, len, align, k) ==
    IF pos % align # 0 \/ len % align # 0 THEN [err |-> TRUE, data |-> <<>>]
    ELSE LET avail == IF pos < F THEN F - pos ELSE 0
             full == Min(len, avail)
             size == IF k * align < full THEN k * align ELSE full IN
         [err |-> FALSE, data |-> FileBytes(pos, size)]

\* read_state(offset, front, to_read, memory_alignment, disk_alignment)
read_state(S, offset, front, to_read) ==
    [S EXCEPT !.buf = [i \in 1..align_up(to_read, S.align) |-> Garbage],
              !._offset = offset, !._to_read = to_read, !._front = front,
              !.pos = 0, !.eof = FALSE]

done_ignoring_eof(S) == S.pos >= S._to_read

done(S) == S.eof \/ S.pos >= S._to_read

have_good_bytes(S) == S.pos > S._front

trim_buf_keep_front(S) ==
    IF have_good_bytes(S) THEN trim(S.buf, S.pos) ELSE trim(S.buf, 0)

trim_buf_before_ret(S) ==
    IF have_good_bytes(S) THEN trim_front(trim(S.buf, S.pos), S._front)
    ELSE trim(S.buf, 0)

cur_offset(S) == S._offset + S.pos
left_space(S) == Len(S.buf) - S.pos
left_to_read(S) == S._to_read - S.pos

append_new_data(S, new_data) ==
    LET to_copy == Min(left_space(S), Len(new_data)) IN
    [S EXCEPT !.buf = [i \in 1..Len(S.buf) |->
                          IF i > S.pos /\ i <= S.pos + to_copy
                          THEN new_data[i - S.pos] ELSE S.buf[i]],
              !.pos = @ + to_copy]

\* read_maybe_eof: one aligned read into a fresh buffer, trimmed to the bytes
\* read; EINVAL gives the empty buffer
read_maybe_eof(F, pos, len, align, k) ==
    LET r == read_dma(F, pos, align_up(len, align), align, k) IN
    IF r.err THEN <<>> ELSE r.data

IoErrors == {"EIO"}         \* errors of a read other than EINVAL

read_maybe_eof_swallows(len, f) ==
    [failed |-> FALSE, err |-> "none",
     buf |-> trim(f.data \o [i \in 1..(len - Len(f.data)) |-> Garbage], Len(f.data))]

\* the continuation of the dma_read of read_maybe_eof into a buffer of len
\* bytes: f is the future of the read, its error or the bytes read
read_maybe_eof_wrapped(len, f) ==
    IF f.err = "none"
    THEN [failed |-> FALSE, err |-> "none",
          buf |-> trim(f.data \o [i \in 1..(len - Len(f.data)) |-> Garbage], Len(f.data))]
    ELSE IF f.err = "EINVAL"
    THEN [failed |-> FALSE, err |-> "none", buf |-> trim([i \in 1..len |-> Garbage], 0)]
    ELSE [failed |-> TRUE, err |-> f.err, buf |-> <<>>]

\* the future of the dma_read of a round: the error e of the device, or what
\* read_dma gives
round_read(S, k, e) ==
    LET r == read_dma(S.length, cur_offset(S), align_up(left_to_read(S), S.align), S.align, k) IN
    IF e # "none" THEN [err |-> e, data |-> <<>>]
    ELSE IF r.err THEN [err |-> "EINVAL", data |-> <<>>]
    ELSE [err |-> "none", data |-> r.data]

\* one round of do_until in dma_read_bulk
read_round(S, k, e) ==
    LET f == round_read(S, k, e)
        o == read_maybe_eof_wrapped(align_up(left_to_read(S), S.align), f)
        T == [S EXCEPT !.rounds = @ + 1,
                       !.last = [err |-> f.err, n |-> Len(f.data),
                                 failed |-> o.failed, buf |-> o.buf]] IN
    IF o.failed THEN [T EXCEPT !.phase = "failed", !.err = o.err]
    ELSE IF Len(o.buf) > 0 THEN append_new_data(T, o.buf)
    ELSE [T EXCEPT !.eof = TRUE, !.einval = f.err = "EINVAL"]

\* dma_read_bulk up to its first read: the offset is aligned down and the
\* range widened by the bytes in front
dma_read_bulk(S, offset, range_size) ==
    LET front == bit_and(offset, S.align - 1) IN
    read_state([S EXCEPT !.offset = offset, !.range_size = range_size],
               offset - front, front, range_size + front)

dma_read_untrimmed(buf, len) == buf

\* the continuation of dma_read(pos, len)
dma_read_trim(buf, len) == IF len < Len(buf) THEN trim(buf, len) ELSE buf

\* -------------------------------------------------------- file input stream
BufferSizes == {3, 4}       \* file_input_stream_options::buffer_size, 8192 by default

align_down(v, align) == (v \div align) * align

Max(a, b) == IF a > b THEN a ELSE b

\* the read-copy sequence of dma_read_bulk with reads that are never short
RECURSIVE read_copy(_)
read_copy(S) ==
    IF done(S) THEN S
    ELSE LET buf1 == read_maybe_eof(S.length, cur_offset(S), left_to_read(S),
                                    S.align, uint64_max) IN
         IF Len(buf1) > 0 THEN read_copy(append_new_data(S, buf1))
         ELSE read_copy([S EXCEPT !.eof = TRUE])

\* what dma_read_bulk(offset, range_size) returns for a file of length F
bulk_read(F, align, offset, range_size) ==
    LET S == dma_read_bulk([rd_start EXCEPT !.length = F, !.align = align],
                           offset, range_size)
        r == read_dma(F, S._offset, Len(S.buf), align, uint64_max) IN
    trim_buf_before_ret(read_copy(append_new_data(S, r.data)))

fin_start ==
    [phase |-> "closed",      \* closed, open, eof
     length |-> 0,            \* the length of the file
     align |-> 2,             \* _file.disk_read_dma_alignment()
     offset |-> 0,            \* the arguments of make_file_input_stream
     len |-> 0,
     buffer_size |-> 1,       \* _options
     read_ahead |-> 0,
     _pos |-> 0,
     _remain |-> 0,
     _read_buffers |-> <<>>,  \* the queued reads, as indices into reads
     _reads_in_progress |-> 0,
     reads |-> <<>>,          \* every read issued: its captures, and its buffer once ready
     held |-> 0,              \* the read whose future the last get() returned
     out |-> <<>>,            \* the bytes the reader has been given, in order
     _done |-> "none",        \* none (disengaged), pending, set
     sets |-> 0,              \* the calls of _done->set_value()
     nreads0 |-> 0]           \* the reads issued when close() was called

\* file_data_source_impl(f, offset, len, options)
file_data_source_impl(S, offset, len) ==
    [S EXCEPT !.offset = offset, !.len = len,
              !._pos = offset, !._remain = Min(uint64_max - offset, len)]

\* make_ready_future<temporary_buffer<char>>()
ready_empty == [start |-> 0, end |-> 0, pos |-> 0, remain |-> 0, ready |-> TRUE, buf |-> <<>>]

\* the read one round of issue_read_aheads issues: the bulk that holds _pos,
\* cut at buffer_size or at the end of the range
issue_read(S) ==
    LET start == align_down(S._pos, S.align)
        end == align_up(Min(start + S.buffer_size, S._pos + S._remain), S.align) IN
    [start |-> start, end |-> end, pos |-> S._pos, remain |-> S._remain,
     ready |-> FALSE, buf |-> <<>>]

close_blocks_never(S) == FALSE

\* if (_done) return
close_blocks(S) == S._done # "none"

\* issue_read_aheads(min_ra)
RECURSIVE issue_read_aheads(_, _)
issue_read_aheads(S, min_ra) ==
    IF close_blocks(S) THEN S
    ELSE IF Len(S._read_buffers) >= Max(min_ra, S.read_ahead) THEN S
    ELSE IF S._remain = 0
    THEN IF Len(S._read_buffers) >= min_ra THEN S
         ELSE issue_read_aheads(
                [S EXCEPT !.reads = Append(@, ready_empty),
                          !._read_buffers = Append(@, Len(S.reads) + 1)], min_ra)
    ELSE LET r == issue_read(S) IN
         issue_read_aheads(
            [S EXCEPT !._reads_in_progress = @ + 1,
                      !.reads = Append(@, r),
                      !._read_buffers = Append(@, Len(S.reads) + 1),
                      !._pos = r.end,
                      !._remain = Max(r.end, S._pos + S._remain) - r.end], min_ra)

read_untrimmed(r, ret) == ret

\* the continuation of a read: the first and the last buffer are trimmed to
\* the range of the stream
read_trimmed(r, ret) ==
    IF r.pos = r.start /\ r.end <= r.pos + r.remain THEN ret
    ELSE LET real_end == r.start + Len(ret)
             cut == IF real_end > r.pos + r.remain
                    THEN trim(ret, r.pos + r.remain - r.start) ELSE ret IN
         IF real_end <= r.pos THEN <<>>
         ELSE IF r.start < r.pos THEN trim_front(cut, r.pos - r.start) ELSE cut

\* the continuation attached to dma_read_bulk in issue_read_aheads
read_done(S, i) ==
    LET r == S.reads[i]
        ret == bulk_read(S.length, S.align, r.start, r.end - r.start)
        T == issue_read_aheads(S, 0)
        last == T._done # "none" /\ T._reads_in_progress = 1 IN
    [T EXCEPT !._reads_in_progress = @ - 1,
              !._done = IF last THEN "set" ELSE @,
              !.sets = IF last THEN @ + 1 ELSE @,
              !.reads[i] = [r EXCEPT !.ready = TRUE, !.buf = read_trimmed(r, ret)]]

\* file_data_source_impl::close
fin_close(S) ==
    [S EXCEPT !._done = IF S._reads_in_progress = 0 THEN "set" ELSE "pending",
              !.sets = IF S._reads_in_progress = 0 THEN @ + 1 ELSE @,
              !.nreads0 = Len(S.reads)]

\* file_data_source_impl::get
fin_get(S) ==
    LET T == IF S._read_buffers = <<>> THEN issue_read_aheads(S, 1) ELSE S IN
    [T EXCEPT !.held = Head(T._read_buffers), !._read_buffers = Tail(@)]

\* ------------------------------------------------------- file output stream
PutSizes == {1, 2, 4}       \* sizes of the buffers passed to put()
SinkOps == 1..MaxSinkOps

sink_start ==
    [phase |-> "none",        \* none, open, closing, aborted
     align |-> 2,             \* _file.disk_write_dma_alignment()
     write_behind |-> 0,      \* _options.write_behind
     _pos |-> 0,
     sem |-> 0,               \* count of _write_behind_sem
     waiters |-> <<>>,        \* those waiting on it, oldest first
     bwd |-> {},              \* the writes merged into _background_writes_done
     bwd_valid |-> TRUE,      \* false once then() has consumed the future
     _failed |-> FALSE,
     ops |-> <<>>,            \* the calls made on the sink, oldest first
     size |-> 0,              \* the size of the file
     anyfail |-> FALSE,       \* a write has failed
     late_write |-> FALSE,    \* a write was issued after another had failed
     seen_write |-> FALSE]    \* a write was issued with _failed set

sink_op(kind, pos, len) ==
    [kind |-> kind, pos |-> pos, len |-> len,
     st |-> "new",            \* put: waiting, acquired, writing, truncating, done, failed, skipped
                              \* flush, close: waiting, acquired, bwd, file, done, failed
     fut |-> "pending",       \* the future the call returned: pending, ok, failed
     padded |-> len, truncate |-> FALSE, to |-> 0,
     ret |-> {}]              \* the writes of the _background_writes_done it took over

Resolved(S, i) == S.ops[i].st \in {"done", "failed"}

\* the state of a future that merges the writes ws
Merged(S, ws) ==
    IF \E i \in ws : ~Resolved(S, i) THEN "pending"
    ELSE IF \E i \in ws : S.ops[i].st = "failed" THEN "failed"
    ELSE "ok"

\* the waiters of the semaphore are served oldest first while the units last
RECURSIVE sink_wake(_)
sink_wake(S) ==
    IF S.waiters = <<>> \/ S.sem < Head(S.waiters).n THEN S
    ELSE LET w == Head(S.waiters) IN
         sink_wake([S EXCEPT !.sem = @ - w.n, !.waiters = Tail(@),
                             !.ops[w.op].st = "acquired"])

\* semaphore::signal(n)
sink_signal(S, n) == sink_wake([S EXCEPT !.sem = @ + n])

\* semaphore::wait(n)
sink_wait(S, i, n) ==
    IF S.sem >= n /\ S.waiters = <<>>
    THEN [S EXCEPT !.sem = @ - n, !.ops[i].st = "acquired"]
    ELSE [S EXCEPT !.waiters = Append(@, [op |-> i, n |-> n]), !.ops[i].st = "waiting"]

\* do_put up to dma_write: an unaligned buffer is copied into one padded to
\* the write alignment, and the file is to be truncated after the write
do_put(S, i) ==
    LET o == S.ops[i]
        unaligned == bit_and(o.len, S.align - 1) # 0 IN
    IF bit_and(o.pos, S.align - 1) # 0 THEN [S EXCEPT !.phase = "aborted"]
    ELSE [S EXCEPT !.ops[i].st = "writing",
                   !.ops[i].padded = IF unaligned THEN align_up(o.len, S.align) ELSE o.len,
                   !.ops[i].truncate = unaligned]

put_pos_after(S, len) ==
    LET i == Len(S.ops) + 1
        T == [S EXCEPT !._pos = @ + len,
                       !.ops = Append(@, sink_op("put", S._pos + len, len))] IN
    IF S.write_behind = 0 THEN do_put(T, i) ELSE sink_wait(T, i, 1)

\* put(buf) up to the wait on the semaphore
put(S, len) ==
    LET i == Len(S.ops) + 1
        T == [S EXCEPT !._pos = @ + len,
                       !.ops = Append(@, sink_op("put", S._pos, len))] IN
    IF S.write_behind = 0 THEN do_put(T, i) ELSE sink_wait(T, i, 1)

merged_failure_last(S, ws) ==
    LET f == {i \in ws : S.ops[i].st = "failed"} IN
    IF f = {} THEN 0 ELSE CHOOSE i \in f : \A j \in f : j <= i

\* the write whose failure a future that merges the writes ws carries, 0 when
\* none failed: each merge prefers the error of the writes before
merged_failure(S, ws) ==
    LET f == {i \in ws : S.ops[i].st = "failed"} IN
    IF f = {} THEN 0 ELSE CHOOSE i \in f : \A j \in f : i <= j

put_continues_unchecked(S, i) ==
    LET T == do_put(S, i) IN
    [T EXCEPT !.bwd = @ \cup {i}, !.ops[i].fut = "ok",
              !.late_write = @ \/ S.anyfail, !.seen_write = @ \/ S._failed]

\* the continuation of the wait in put
put_continues(S, i) ==
    IF S._failed
    THEN sink_signal([S EXCEPT !.ops[i].st = "skipped", !.ops[i].ret = S.bwd,
                               !.bwd = {}, !.bwd_valid = TRUE], 1)
    ELSE LET T == do_put(S, i) IN
         [T EXCEPT !.bwd = @ \cup {i}, !.ops[i].fut = "ok",
                   !.late_write = @ \/ S.anyfail, !.seen_write = @ \/ S._failed]

\* a write of the merged future failed with every write before it done:
\* the merge continuation sets _failed
merge_failed(S) ==
    \E i \in S.bwd : /\ S.ops[i].st = "failed"
                     /\ \A j \in S.bwd : j < i => Resolved(S, j)

\* the future of do_put resolves; with write-behind its finally() signals
\* the semaphore and the merge continuation runs
write_resolved(S, i, st) ==
    LET T == [S EXCEPT !.ops[i].st = st, !.anyfail = @ \/ st = "failed"] IN
    IF S.write_behind = 0
    THEN [T EXCEPT !.ops[i].fut = IF st = "failed" THEN "failed" ELSE "ok"]
    ELSE LET U == sink_signal(T, 1) IN
         [U EXCEPT !._failed = @ \/ merge_failed(U)]

truncate_to_written(S, i) == S.ops[i].pos + S.ops[i].padded

\* the length do_put truncates the file to
truncate_to(S, i) == S._pos

\* dma_write completes, and the continuation in do_put runs
write_completes(S, i, ok) ==
    LET o == S.ops[i] IN
    IF ~ok THEN write_resolved(S, i, "failed")
    ELSE LET T == [S EXCEPT !.size = Max(@, o.pos + o.padded)] IN
         IF o.truncate
         THEN [T EXCEPT !.ops[i].st = "truncating", !.ops[i].to = truncate_to(S, i)]
         ELSE write_resolved(T, i, "done")

\* _file.truncate completes
truncate_completes(S, i) ==
    write_resolved([S EXCEPT !.size = S.ops[i].to], i, "done")

\* wait(), called by flush() and close(), up to the wait on the semaphore
sink_flush(S, kind) ==
    LET i == Len(S.ops) + 1 IN
    sink_wait([S EXCEPT !.ops = Append(@, sink_op(kind, S._pos, 0))], i, S.write_behind)

\* the continuation of the wait in wait(): then() consumes
\* _background_writes_done
wait_continues(S, i) ==
    [S EXCEPT !.ops[i].st = "bwd", !.ops[i].ret = S.bwd, !.bwd_valid = FALSE]

\* _background_writes_done has resolved: its continuation, which gives the
\* units back and resets the future, runs only when it did not fail
wait_restores(S, i) ==
    IF Merged(S, S.ops[i].ret) = "ok"
    THEN sink_signal([S EXCEPT !.ops[i].st = "file", !.bwd = {}, !.bwd_valid = TRUE],
                     S.write_behind)
    ELSE [S EXCEPT !.ops[i].st = "failed", !.ops[i].fut = "failed"]

\* --------------------------------------------------------- parallel_for_each
SubOps == 1..MaxSubOps

pfe_start ==
    [n |-> 0,                             \* the length of the range
     sub |-> [i \in SubOps |-> "none"],   \* none, running, ok, failed
     noted |-> {},                        \* sub-operations whose completion has been counted
     waiting |-> 0,                       \* sub-operations not yet counted
     ex |-> 0,                            \* the failure kept: the index of the one that raised it
     early |-> FALSE,                     \* a failure was counted while another still ran
     result |-> "none"]                   \* none, pending, ok, failed

\* parallel_for_each(range, func): func is started on every element
parallel_for_each(P, n) ==
    [P EXCEPT !.n = n,
              !.sub = [i \in SubOps |-> IF i <= n THEN "running" ELSE "none"],
              !.waiting = n,
              !.result = IF n = 0 THEN "ok" ELSE "pending"]

pfe_note_failfast(P, i) ==
    LET ex == IF P.sub[i] = "failed" THEN i ELSE P.ex
        left == P.waiting - 1 IN
    [P EXCEPT !.noted = @ \cup {i}, !.ex = ex, !.waiting = left,
              !.result = IF ex # 0 THEN "failed" ELSE IF left = 0 THEN "ok" ELSE @]

\* the continuation on the future of sub-operation i: a failure is kept, and
\* the last one to be counted resolves the result
pfe_note(P, i) ==
    LET ex == IF P.sub[i] = "failed" THEN i ELSE P.ex
        left == P.waiting - 1 IN
    [P EXCEPT !.noted = @ \cup {i}, !.ex = ex, !.waiting = left,
              !.early = @ \/ (P.sub[i] = "failed" /\ \E j \in SubOps : P.sub[j] = "running"),
              !.result = IF left > 0 THEN @ ELSE IF ex # 0 THEN "failed" ELSE "ok"]

\* -------------------------------------------------------------------- fibers
Fibers == {1, 2}
Returns == {2}
Failure == 0 - 1

\* what func does: get() on one future after the other, each ready or not
\* when get() is called, then it returns a value or throws
GetSeqs == UNION {[1..n -> BOOLEAN] : n \in 0..MaxGets}
Funcs == [gets : GetSeqs, ret : Returns \cup {Failure}]

fiber_start ==
    [work |-> "none",        \* the work record of async: none, alive, destroyed
     func |-> [gets |-> <<>>, ret |-> 2],
     pc |-> 0,               \* calls of get() that have returned
     st |-> "none",          \* the thread context: none, parked, ended
     awaited |-> "none",     \* the future get() waits for: none, pending, ok, failed
     pr |-> 0,               \* work::pr: 0 not set, a value, Failure
     _done |-> FALSE,        \* thread_context::_done is set
     _joined |-> FALSE,      \* thread_context::_joined
     cont |-> "none",        \* the continuation of join(): none, attached, queued, ran
     result |-> 0,           \* the future async returned: 0 pending, a value, Failure
     parks |-> 0, resumes |-> 0,
     early |-> FALSE,        \* the fiber was switched in while its future was pending
     meanwhile |-> FALSE,    \* another task or fiber ran while this one was parked
     assert_failed |-> FALSE]

th_start == [fib |-> [f \in Fibers |-> fiber_start], q |-> <<>>, others |-> 0]

\* the first get() after pc that finds its future not ready, 0 when none does
next_block(func, pc) ==
    LET c == {k \in (pc + 1)..Len(func.gets) : ~func.gets[k]} IN
    IF c = {} THEN 0 ELSE CHOOSE k \in c : \A j \in c : k <= j

\* thread_context::main after func: the outcome goes to w.pr (forward_to),
\* _done is set, and the continuation of join(), when attached, is queued
fiber_ends(T, f, outcome) ==
    LET F == T.fib[f] IN
    [T EXCEPT !.fib[f] = [F EXCEPT !.pc = IF outcome = Failure /\ F.awaited = "failed"
                                           THEN @ ELSE Len(F.func.gets),
                                   !.st = "ended", !.awaited = "none", !.pr = outcome, !._done = TRUE,
                                   !.cont = IF @ = "attached" THEN "queued" ELSE @],
              !.q = IF F.cont = "attached" THEN Append(@, <<"joined", f>>) ELSE @]

\* future::get(): a ready future gives its value at once, a future that is
\* not ready parks the fiber until it is fulfilled
fiber_run(T, f) ==
    LET F == T.fib[f]
        k == next_block(F.func, F.pc) IN
    IF k = 0 THEN fiber_ends(T, f, F.func.ret)
    ELSE [T EXCEPT !.fib[f] = [F EXCEPT !.pc = k - 1, !.st = "parked", !.awaited = "pending",
                                        !.parks = @ + 1]]

thread_join_unmarked(T, f) ==
    LET F == T.fib[f] IN
    [T EXCEPT !.fib[f] = [F EXCEPT !.cont = IF F._done THEN "queued" ELSE "attached"],
              !.q = IF F._done THEN Append(@, <<"joined", f>>) ELSE @]

\* thread::join() and the then() of async on the future it returns
thread_join(T, f) ==
    LET F == T.fib[f] IN
    [T EXCEPT !.fib[f] = [F EXCEPT !._joined = TRUE,
                                   !.cont = IF F._done THEN "queued" ELSE "attached"],
              !.q = IF F._done THEN Append(@, <<"joined", f>>) ELSE @]

\* async(func, args): the work record is made, the thread runs func at once
\* up to its first park or its end, and is then joined
async(T, f, func) ==
    LET T1 == [T EXCEPT !.fib[f] = [@ EXCEPT !.work = "alive", !.func = func]] IN
    thread_join(fiber_run(T1, f), f)

fiber_wake_twice(T, f, ok) ==
    [T EXCEPT !.fib[f].awaited = IF ok THEN "ok" ELSE "failed",
              !.q = @ \o <<<<"resume", f>>, <<"resume", f>>>>]

\* the future a parked fiber waits for is fulfilled: the continuation get()
\* attached to it is queued
fiber_wake(T, f, ok) ==
    [T EXCEPT !.fib[f].awaited = IF ok THEN "ok" ELSE "failed",
              !.q = Append(@, <<"resume", f>>)]

\* the queued continuation of get() switches into the fiber, where get()
\* returns the value or throws the failure, which ends func
switch_in(T, f) ==
    LET F == T.fib[f]
        T1 == [T EXCEPT !.fib[f] = [F EXCEPT !.resumes = @ + 1,
                                             !.early = @ \/ F.awaited = "pending"]] IN
    IF F.st # "parked" THEN T1
    ELSE IF F.awaited = "failed" THEN fiber_ends(T1, f, Failure)
    ELSE fiber_run([T1 EXCEPT !.fib[f].pc = @ + 1, !.fib[f].awaited = "none"], f)

\* the continuation of join() gives ret, which makes the future of async
\* resolve; do_with then destroys the work record, and ~thread asserts
join_continues(T, f) ==
    LET F == T.fib[f] IN
    [T EXCEPT !.fib[f] = [F EXCEPT !.cont = "ran", !.result = F.pr, !.work = "destroyed",
                                   !.assert_failed = ~F._joined]]

\* what ran is noted on the fibers parked meanwhile
ran_meanwhile(T, f) ==
    [T EXCEPT !.fib = [g \in Fibers |->
        IF g # f /\ T.fib[g].st = "parked" /\ T.fib[g].awaited = "pending"
        THEN [T.fib[g] EXCEPT !.meanwhile = TRUE] ELSE T.fib[g]]]

run_fiber_task(T) ==
    LET t == Head(T.q)
        T1 == [T EXCEPT !.q = Tail(@)] IN
    IF t[1] = "resume" THEN ran_meanwhile(switch_in(T1, t[2]), t[2])
    ELSE IF t[1] = "joined" THEN join_continues(T1, t[2])
    ELSE ran_meanwhile(T1, 0)

\* -------------------------------------------------------------- app_template
ExitCodes == {0, 1, 2, 3}
ConfFiles == {"absent", "good", "bad"}
Overloads == {"int", "void"}

\* what run is called with: the overload, whether the command line parses,
\* whether HOME is set, the two configuration files, whether --help is among
\* the options, whether notify accepts the values
AppArgs == [overload : Overloads, cmdline_ok : BOOLEAN, home : BOOLEAN, conf : ConfFiles,
            io_conf : ConfFiles, help : BOOLEAN, notify_ok : BOOLEAN]

\* what the application function does when called
AppBehs == {"throw_std", "throw_other", "ready", "ready_failed", "pending"}

app_start ==
    [phase |-> "init",      \* init, started, called, handled, returned, threw
     args |-> [overload |-> "int", cmdline_ok |-> TRUE, home |-> FALSE, conf |-> "absent",
               io_conf |-> "absent", help |-> FALSE, notify_ok |-> TRUE],
     started |-> FALSE,     \* engine().run() was entered
     called |-> FALSE,      \* the application function was called
     fut |-> "none",        \* its future: none, pending, value, failed, thrown_std, thrown_other
     value |-> 0,           \* the value of a future<int>
     late |-> FALSE,        \* the future was resolved after the function returned
     printed |-> "none",    \* none, error, help, exception
     stopped |-> FALSE,     \* engine().exit() was called
     _return |-> 0,         \* reactor::_return
     ret |-> 0 - 1]         \* what run returned, -1 before

\* bpo::store of the command line and of the configuration files throws
\* bpo::error
parse_fails(a) ==
    \/ ~a.cmdline_ok
    \/ a.home /\ (a.conf = "bad" \/ a.io_conf = "bad")

\* reactor::exit
engine_exit(A, code) == [A EXCEPT !.stopped = TRUE, !._return = code]

run_deprecated_help_first(A, a) ==
    LET A1 == [A EXCEPT !.args = a] IN
    IF a.help THEN [A1 EXCEPT !.printed = "help", !.ret = 1, !.phase = "returned"]
    ELSE IF parse_fails(a) THEN [A1 EXCEPT !.printed = "error", !.ret = 2, !.phase = "returned"]
    ELSE IF ~a.notify_ok THEN [A1 EXCEPT !.phase = "threw"]
    ELSE [A1 EXCEPT !.started = TRUE, !.phase = "started"]

\* run_deprecated up to engine().run()
run_deprecated(A, a) ==
    LET A1 == [A EXCEPT !.args = a] IN
    IF parse_fails(a) THEN [A1 EXCEPT !.printed = "error", !.ret = 2, !.phase = "returned"]
    ELSE IF ~a.notify_ok THEN [A1 EXCEPT !.phase = "threw"]
    ELSE IF a.help THEN [A1 EXCEPT !.printed = "help", !.ret = 1, !.phase = "returned"]
    ELSE [A1 EXCEPT !.started = TRUE, !.phase = "started"]

\* then_wrapped of run_deprecated: only a std::exception is caught
uncaught(A, kind) ==
    IF kind = "thrown_std" THEN engine_exit([A EXCEPT !.printed = "exception"], 1)
    ELSE A

\* or_terminate: the failure is reported and the reactor exits with 1
or_terminate(A) == engine_exit([A EXCEPT !.printed = "exception"], 1)

\* the continuation of run on the future of func: exit with its value, 0
\* for a future<>
run_continues(A) ==
    engine_exit(A, IF A.args.overload = "void" THEN 0 ELSE A.value)

\* the chain on the future of the application function, once it is resolved
app_handled(A) ==
    LET A1 == [A EXCEPT !.phase = "handled"] IN
    IF A.fut = "value" THEN run_continues(A1)
    ELSE IF A.fut = "failed" THEN or_terminate(A1)
    ELSE uncaught(A1, A.fut)

\* when_started(): the reactor calls the application function
call_app(A, beh, v) ==
    LET A1 == [A EXCEPT !.called = TRUE, !.phase = "called"] IN
    IF beh = "throw_std" THEN [A1 EXCEPT !.fut = "thrown_std"]
    ELSE IF beh = "throw_other" THEN [A1 EXCEPT !.fut = "thrown_other"]
    ELSE IF beh = "ready" THEN [A1 EXCEPT !.fut = "value", !.value = IF A.args.overload = "void" THEN 0 ELSE v]
    ELSE IF beh = "ready_failed" THEN [A1 EXCEPT !.fut = "failed"]
    ELSE [A1 EXCEPT !.fut = "pending"]

\* ------------------------------------------------------------ the task quota
QPollers == 1..MaxPollers

tq_start ==
    [pc |-> 0,                       \* 0: run_tasks drains, p > 0: poller p is the next to poll
     ntasks |-> 1,                   \* the length of _pending_tasks
     _task_quota_finished |-> FALSE, \* set by the handler of the quota timer's signal
     batch |-> 0,                    \* tasks run in this batch
     polled |-> QPollers,            \* the pollers polled since the last task ran
     overrun |-> FALSE,              \* a task ran although the flag was set or a poller was not polled
     fired |-> FALSE]                \* the last batch ended because the flag was set

run_tasks_goes_on_ignoring(T) == T.ntasks > 0

\* the condition of the loop of run_tasks, checked between tasks
run_tasks_goes_on(T) == T.ntasks > 0 /\ ~T._task_quota_finished

\* one task runs and queues k new ones
run_one_task(T, k) ==
    [T EXCEPT !.ntasks = IF @ - 1 + k > MaxPending THEN MaxPending ELSE @ - 1 + k,
              !.batch = IF @ < MaxBatch THEN @ + 1 ELSE @,
              !.overrun = @ \/ T._task_quota_finished \/ (T.batch = 0 /\ T.polled # QPollers),
              !.polled = {}]

\* run_tasks returns: the main loop goes on to poll
run_tasks_returns(T) ==
    [T EXCEPT !.pc = 1, !.fired = T._task_quota_finished, !.polled = {}]

\* poll_once polls poller p; after the last one the loop turns and run_tasks
\* starts a new batch with the flag cleared
poll_poller(T, p) ==
    IF p < MaxPollers THEN [T EXCEPT !.pc = p + 1, !.polled = @ \cup {p}]
    ELSE [T EXCEPT !.pc = 0, !.polled = @ \cup {p}, !.batch = 0, !._task_quota_finished = FALSE]

\* ------------------------------------------------------------------- arp_for
L3Broadcast == "bcast"                  \* L3::broadcast_address()
L3Addrs == {L3Broadcast, "a1", "a2"}    \* l3addr
EthBroadcast == "ff"                    \* ethernet::broadcast_address()
l2self == "self"                        \* _netif->hw_address()
SelfAddrs == {"a1"}                     \* the addresses the host is given
PeerHw == {"h1"}                        \* hardware addresses of other hosts
NoEntry == "none"                       \* find() == end()

no_resolution == [present |-> FALSE, armed |-> FALSE, _waiters |-> <<>>]

no_call == [op |-> "none", addr |-> L3Broadcast, hw |-> NoEntry, cached |-> NoEntry,
            first_request |-> FALSE, nwait |-> 0, sent |-> FALSE, armed |-> FALSE,
            woken |-> {}]

\* arp_for(arp&): the table holds the broadcast address, _l3self is the
\* broadcast address
arp_start ==
    [_l3self |-> L3Broadcast,
     _table |-> [a \in L3Addrs |-> IF a = L3Broadcast THEN EthBroadcast ELSE NoEntry],
     _in_progress |-> [a \in L3Addrs |-> no_resolution],
     futs |-> <<>>,            \* the futures lookup returned: pending, value, timeout, full
     assert_failed |-> FALSE,  \* a timer was armed twice, or a promise set twice
     last |-> no_call]         \* the last call and what it found

arp_future(a, st, val) == [addr |-> a, st |-> st, val |-> val, nres |-> IF st = "pending" THEN 0 ELSE 1]

\* promise::set_value or set_exception on the waiters ws
RECURSIVE resolve_waiters(_, _, _, _)
resolve_waiters(A, ws, st, val) ==
    IF ws = <<>> THEN A
    ELSE LET i == Head(ws) IN
         resolve_waiters([A EXCEPT !.futs[i].st = st, !.futs[i].val = val,
                                   !.futs[i].nres = @ + 1,
                                   !.assert_failed = @ \/ A.futs[i].nres > 0],
                         Tail(ws), st, val)

lookup_arms_always(first_request) == TRUE

\* if (first_request): set the callback, arm the timer, send the query
lookup_arms(first_request) == first_request

\* arp_for::lookup(paddr)
lookup(A, paddr) ==
    LET cached == A._table[paddr]
        res == A._in_progress[paddr]
        first_request == ~res.present
        arms == lookup_arms(first_request)
        res1 == IF arms THEN [res EXCEPT !.present = TRUE, !.armed = TRUE] ELSE res
        full == Len(res1._waiters) >= max_waiters
        n == Len(A.futs) + 1
        call == [no_call EXCEPT !.op = "lookup", !.addr = paddr, !.cached = cached,
                                !.first_request = first_request] IN
    IF cached # NoEntry
    THEN [A EXCEPT !.futs = Append(@, arp_future(paddr, "value", cached)), !.last = call]
    ELSE [A EXCEPT
            !._in_progress[paddr] = IF full THEN res1
                                    ELSE [res1 EXCEPT !._waiters = Append(@, n)],
            !.futs = Append(@, arp_future(paddr, IF full THEN "full" ELSE "pending", NoEntry)),
            !.assert_failed = @ \/ (arms /\ res.armed),
            !.last = [call EXCEPT !.nwait = Len(res._waiters), !.sent = arms, !.armed = arms]]

\* arp_for::learn(hwaddr, paddr)
learn(A, hwaddr, paddr) ==
    LET res == A._in_progress[paddr]
        B == [A EXCEPT !._table[paddr] = hwaddr,
                       !.last = [no_call EXCEPT !.op = "learn", !.addr = paddr, !.hw = hwaddr,
                                                !.nwait = Len(res._waiters),
                                                !.woken = {res._waiters[i] : i \in 1..Len(res._waiters)}]] IN
    IF res.present
    THEN [resolve_waiters(B, res._waiters, "value", hwaddr)
            EXCEPT !._in_progress[paddr] = no_resolution]
    ELSE B

timeout_callback_keeps(A, paddr) ==
    LET res == A._in_progress[paddr] IN
    [resolve_waiters(A, res._waiters, "timeout", NoEntry)
        EXCEPT !.last = [no_call EXCEPT !.op = "timeout", !.addr = paddr, !.sent = TRUE,
                                        !.nwait = Len(res._waiters),
                                        !.woken = {res._waiters[i] : i \in 1..Len(res._waiters)}]]

\* the callback of _timeout_timer
timeout_callback(A, paddr) ==
    LET res == A._in_progress[paddr] IN
    [resolve_waiters(A, res._waiters, "timeout", NoEntry)
        EXCEPT !._in_progress[paddr]._waiters = <<>>,
               !.last = [no_call EXCEPT !.op = "timeout", !.addr = paddr, !.sent = TRUE,
                                        !.nwait = Len(res._waiters),
                                        !.woken = {res._waiters[i] : i \in 1..Len(res._waiters)}]]

\* arp_for::set_self_addr(addr)
set_self_addr(A, addr) ==
    [A EXCEPT !._table = [a \in L3Addrs |->
                            IF a = addr THEN l2self
                            ELSE IF a = A._l3self THEN NoEntry ELSE A._table[a]],
              !._l3self = addr,
              !.last = [no_call EXCEPT !.op = "set_self_addr", !.addr = addr]]

\* ------------------------------------------------------------ iotune_manager
MaxKey == 2 * initial_limit         \* the highest concurrency a result can have
TuneKeys == 0..MaxKey
NoResult == 0 - 1                   \* no entry of _all_results, no delta yet
UbFirsts == {0, initial_limit}      \* what (*it).first reads of an iterator that cannot be dereferenced

\* boost::irange(from, to, step) as a sequence
RECURSIVE irange(_, _, _)
irange(from, to, step) ==
    IF from >= to THEN <<>> ELSE <<from>> \o irange(from + step, to, step)

run_stats(iops, conc) == [IOPS |-> iops, concurrency |-> conc]

\* iotune_manager(n, dirname)
mgr_start ==
    [_next_concurrency |-> initial_step,
     _concurrency_queue |-> irange(initial_step, initial_limit, initial_step),
     _all_results |-> [k \in TuneKeys |-> IF k = 0 THEN 0 ELSE NoResult],
     _best_result |-> run_stats(0, 0),
     _current_test_phase |-> "find_max_region",
     _test_done |-> "no",
     _best_critical_delta |-> NoResult,
     _best_critical_concurrency |-> 0,
     _test_result |-> run_stats(0, 0),
     rounds |-> 0,               \* the runs analyzed
     refined |-> FALSE,          \* find_max_region has ended the exploratory phase
     has_prev |-> TRUE,          \* the entry of the best result had a predecessor then
     has_next |-> TRUE,          \*   and a successor
     ub |-> FALSE]               \* an iterator that cannot be dereferenced was dereferenced

ResultKeys(M) == {k \in TuneKeys : M._all_results[k] # NoResult}
KeysBelow(M, k) == {j \in ResultKeys(M) : j < k}
KeysAbove(M, k) == {j \in ResultKeys(M) : j > k}

\* (*std::prev(it)).first and (*std::next(it)).first for the entry of key k
prev_first(M, k, ubf) ==
    IF KeysBelow(M, k) = {} THEN ubf
    ELSE CHOOSE j \in KeysBelow(M, k) : \A i \in KeysBelow(M, k) : i <= j
next_first(M, k, ubf) ==
    IF KeysAbove(M, k) = {} THEN ubf
    ELSE CHOOSE j \in KeysAbove(M, k) : \A i \in KeysAbove(M, k) : j <= i

better_or_equal(result, best) == result.IOPS >= best.IOPS

\* if (result.IOPS > _best_result.IOPS)
better(result, best) == result.IOPS > best.IOPS

\* find_max_region(result); ubp and ubn are what an invalid prev and next give
find_max_region(M, result, ubp, ubn) ==
    LET B == IF better(result, M._best_result) THEN [M EXCEPT !._best_result = result] ELSE M
        k == B._best_result.concurrency
        from == prev_first(B, k, ubp)
        to == next_first(B, k, ubn) IN
    IF B._concurrency_queue # <<>> THEN B
    ELSE [B EXCEPT !._concurrency_queue = irange(from, to, 1),
                   !._current_test_phase = "find_max_point",
                   !.refined = TRUE,
                   !.has_prev = KeysBelow(B, k) # {},
                   !.has_next = KeysAbove(B, k) # {},
                   !.ub = @ \/ KeysBelow(B, k) = {} \/ KeysAbove(B, k) = {}]

\* the loop of find_max_point over _all_results from key k on: the pair of
\* iterator_of_minimum and iterator_of_maximum, as keys, NoResult for end()
RECURSIVE percentile_scan(_, _, _, _)
percentile_scan(M, k, lo, percentile10) ==
    IF k > MaxKey THEN <<lo, NoResult>>
    ELSE IF M._all_results[k] = NoResult THEN percentile_scan(M, k + 1, lo, percentile10)
    ELSE IF 10 * M._all_results[k] > (percentile10 - 2) * M._best_result.IOPS /\ lo = 0
    THEN percentile_scan(M, k + 1, k, percentile10)
    ELSE IF 10 * M._all_results[k] > (percentile10 + 1) * M._best_result.IOPS
    THEN <<lo, k>>
    ELSE percentile_scan(M, k + 1, lo, percentile10)

\* find_max_point(result, percentile), percentile in tenths
find_max_point(M, result, percentile10, ubn) ==
    LET B == IF better(result, M._best_result) THEN [M EXCEPT !._best_result = result] ELSE M
        it == percentile_scan(B, 0, 0, percentile10)
        to == IF it[2] = NoResult THEN ubn ELSE it[2] IN
    IF B._concurrency_queue # <<>> THEN B
    ELSE [B EXCEPT !._concurrency_queue = irange(it[1], to, 1),
                   !._current_test_phase = "find_percentile",
                   !.ub = @ \/ it[2] = NoResult]

\* find_next_concurrency(result); _desired_percentile is 0.8
find_next_concurrency(M, result, ubp, ubn) ==
    IF M._current_test_phase = "find_max_region" THEN find_max_region(M, result, ubp, ubn)
    ELSE IF M._current_test_phase = "find_max_point" THEN find_max_point(M, result, 8, ubn)
    ELSE LET critical_IOPS == (8 * M._best_result.IOPS) \div 10
             d == IF critical_IOPS >= result.IOPS THEN critical_IOPS - result.IOPS
                  ELSE result.IOPS - critical_IOPS IN
         IF M._best_critical_delta = NoResult \/ d < M._best_critical_delta
         THEN [M EXCEPT !._best_critical_delta = d,
                        !._best_critical_concurrency = result.concurrency]
         ELSE M

\* analyze_results(cpu_id), what thread 0 does
analyze_results(M, result, ubp, ubn) ==
    LET A == find_next_concurrency(
                [M EXCEPT !._all_results[result.concurrency] = result.IOPS,
                          !.rounds = @ + 1], result, ubp, ubn) IN
    IF A._concurrency_queue = <<>> THEN [A EXCEPT !._test_done = "yes"]
    ELSE [A EXCEPT !._next_concurrency = Head(A._concurrency_queue),
                   !._concurrency_queue = Tail(@)]

\* ------------------------------------------------------- the threads of iotune
Tids == {0, 1, 2}                       \* cpu_id

barrier(n) == [count |-> n, generation |-> 0]

tune_start ==
    [n |-> 0,                           \* cpus.size(), 0: no thread spawned yet
     pc |-> [t \in Tids |-> "none"],
     gen |-> [t \in Tids |-> 0],        \* the generation a thread waits to see changed
     my_concurrency |-> [t \in Tids |-> 0],
     start_time |-> [t \in Tids |-> 0], \* what get_start_time returned
     decided |-> [t \in Tids |-> "no"], \* what analyze_results returned
     round |-> [t \in Tids |-> 0],      \* the rounds a thread has finished
     early |-> [t \in Tids |-> 0],      \* rounds in which it signalled without running
     _start_run_barrier |-> barrier(0),
     _finish_run_barrier |-> barrier(0),
     _results_barrier |-> barrier(0),
     _time_run_atomic |-> 0,
     _run_start_time |-> 0,
     now |-> 0,                         \* clock::now(), in runs
     set_in |-> 0,                      \* the round in which _run_start_time was set, from 1
     crashed |-> FALSE]                 \* a thread divided by _threads.size() == 0

\* io_queue_discovery: n threads are spawned
spawn_new(n) ==
    [tune_start EXCEPT !.n = n,
                       !.pc = [t \in Tids |-> IF t < n THEN "start" ELSE "none"],
                       !._start_run_barrier = barrier(n),
                       !._finish_run_barrier = barrier(n),
                       !._results_barrier = barrier(n),
                       !._time_run_atomic = n]

\* boost::barrier::wait of the thread that completes the generation or not
barrier_wait(b, n) ==
    IF b.count = 1 THEN [count |-> n, generation |-> b.generation + 1]
    ELSE [b EXCEPT !.count = @ - 1]

\* a thread arrives at barrier b; it goes on to pc next at once when it is
\* the last, and else waits at pc wait for the generation to change
arrive(T, t, b, wait, next) ==
    LET new == barrier_wait(T[b], T.n) IN
    [T EXCEPT ![b] = new,
              !.gen[t] = T[b].generation,
              !.pc[t] = IF new.generation # T[b].generation THEN next ELSE wait]

\* get_thread_concurrency(cpu_id) after the barrier, with _threads.size() read as size
get_thread_concurrency(overall_concurrency, cpu_id, size) ==
    (overall_concurrency \div size) + (IF cpu_id < overall_concurrency % size THEN 1 ELSE 0)

run_test_silent(concurrency) == 0

\* run_test, concurrency == 0: _time_run_atomic.fetch_sub(1)
run_test_signals(concurrency) == 1

\* _threads.size() as thread t may read it: in its first round the main
\* thread may still be storing the last thread in _threads
ThreadsSizes(T, t) == IF T.round[t] = 0 THEN {T.n - 1, T.n} ELSE {T.n}

\* ------------------------------------------------------------------ state
Start ==
    /\ nprom = 0
    /\ _state = [p \in Cells |-> Pending]
    /\ _future = [p \in Cells |-> "none"]
    /\ _task = [p \in Cells |-> NoTask]
    /\ owner = [p \in Cells |-> "user"]
    /\ fwd = [p \in Cells |-> 0]
    /\ _pending_tasks = <<>>
    /\ current = 0
    /\ ntask = 0
    /\ log = <<>>
    /\ hist = [funRan |-> [p \in Cells |-> 0],       \* invocations of the callable
               seen |-> [p \in Cells |-> Pending],   \* the state the continuation got
               nattach |-> [p \in Cells |-> 0],      \* continuations ever attached
               nrun |-> [p \in Cells |-> 0],         \* runs of the continuation
               att |-> [p \in Cells |-> NoTask],     \* the continuation attached
               fto |-> [p \in Cells |-> 0],          \* forward_to target of the future
               given |-> [p \in Cells |-> Pending]]  \* outcome the promise was given
    /\ now = 0
    /\ timer = [t \in Timers |-> NoTimer]
    /\ _timers = {}
    /\ sleepers = [k \in Sleepers |-> NoSleeper]
    /\ thist = [narm |-> [t \in Timers |-> 0],     \* calls of arm_state
                ninv |-> [t \in Timers |-> 0],     \* invocations of the callback
                ncancel |-> [t \in Timers |-> 0],  \* calls of cancel that returned true
                gen |-> [t \in Timers |-> 0],      \* calls of arm / arm_periodic
                per |-> [t \in Timers |-> 0],      \* the period of the last such call
                until |-> [t \in Timers |-> 0],    \* the expiry of the last such call
                armAt |-> [t \in Timers |-> 0]]    \* the clock at the last such call
    /\ tlog = <<>>
    /\ smp = smp_start
    /\ wk = wk_start
    /\ loop = loop_start
    /\ aio = aio_start
    /\ ioq = ioq_start
    /\ rd = rd_start
    /\ fin = fin_start
    /\ sink = sink_start
    /\ pfe = pfe_start
    /\ th = th_start
    /\ app = app_start
    /\ tq = tq_start
    /\ rt = rt_start
    /\ arp = arp_start
    /\ mgr = mgr_start
    /\ tune = tune_start

\* the future / promise handshake alone
Init == Start /\ plimit = MaxPromises /\ tracing = FALSE

\* tasks and continuations in the ready-task queue, with the event history
InitTask == Start /\ plimit = MaxTaskPromises /\ tracing = TRUE

\* the timer of the application, without futures
InitTimer == Start /\ plimit = 0 /\ tracing = FALSE

Live == 1..nprom
Unset(p) == ~Available(_state[Target(fwd, p)])

\* promise<> p;
NewPromise ==
    /\ nprom < plimit
    /\ Cardinality({p \in Live : owner[p] # "cont"}) < MaxUserPromises
    /\ nprom' = nprom + 1
    /\ UNCHANGED <<restVars, cfgVars, timerVars, _state, _future, _task, owner, fwd, queueVars, hist>>

\* promise::get_future
GetFuture(p) ==
    /\ p \in Live /\ owner[p] = "user" /\ fwd[p] = 0
    /\ _future[p] = "none" /\ _task[p] = NoTask
    /\ _future' = [_future EXCEPT ![p] = "held"]
    /\ UNCHANGED <<restVars, cfgVars, timerVars, nprom, _state, _task, owner, fwd, queueVars, hist>>

\* future::~future without a continuation: the promise has no future again
DropFuture(p) ==
    /\ p \in Live /\ _future[p] = "held" /\ owner[p] # "cont"
    /\ _future' = [_future EXCEPT ![p] = "none"]
    /\ UNCHANGED <<restVars, cfgVars, timerVars, nprom, _state, _task, owner, fwd, queueVars, hist>>

\* promise::set_value
SetValue(p, v) ==
    /\ p \in Live /\ owner[p] = "user" /\ Unset(p)
    /\ Store(promise_set(Heap, p, Value(v), current), hist)
    /\ UNCHANGED <<restVars, cfgVars, timerVars, nprom, _future, owner, current, ntask>>

\* promise::set_exception
SetException(p) ==
    /\ p \in Live /\ owner[p] = "user" /\ Unset(p)
    /\ Store(promise_set(Heap, p, Failed(0), current), hist)
    /\ UNCHANGED <<restVars, cfgVars, timerVars, nprom, _future, owner, current, ntask>>

\* future::then, then_wrapped, finally: the future is consumed, the result
\* promise moves into the continuation and its future goes to the caller
Attach(p, kind, beh, arg) ==
    /\ p \in Live /\ _future[p] = "held"
    /\ nprom < plimit
    /\ LET pr == nprom + 1
           c == continuation(p, kind, beh, arg, pr) IN
        /\ nprom' = pr
        /\ _future' = [q \in Cells |-> IF q = p \/ q = arg THEN "used"
                                       ELSE IF q = pr THEN "held" ELSE _future[q]]
        /\ owner' = [owner EXCEPT ![pr] = "cont"]
        /\ Store(future_schedule(Heap, p, c, current),
                 [hist EXCEPT !.nattach[p] = @ + 1, !.att[p] = c])
    /\ UNCHANGED <<restVars, cfgVars, timerVars, current, ntask>>

Then(p, beh) == Attach(p, "then", beh, 0)

\* then(func) where func returns the future of another promise
ThenReturningFuture(p, arg) ==
    /\ arg \in Live /\ arg # p /\ _future[arg] = "held"
    /\ Attach(p, "then", "fut", arg)

ThenWrapped(p, beh) == Attach(p, "then_wrapped", beh, 0)

Finally(p, beh) == Attach(p, "finally", beh, 0)

\* f1.forward_to(std::move(p2)), f1 being the future of an application promise
ForwardTo(p1, p2) ==
    /\ p1 \in Live /\ p2 \in Live /\ p1 # p2
    /\ _future[p1] = "held" /\ owner[p1] # "cont"
    /\ owner[p2] = "user" /\ Unset(p2) /\ Target(fwd, p2) # p1
    /\ _future' = [_future EXCEPT ![p1] = "used"]
    /\ owner' = [owner EXCEPT ![p2] = "moved"]
    /\ Store(future_forward_to(Heap, p1, p2, current), [hist EXCEPT !.fto[p1] = p2])
    /\ UNCHANGED <<restVars, cfgVars, timerVars, nprom, current, ntask>>

\* engine().add_task(make_task(...))
AddTask ==
    /\ ntask < MaxTasks
    /\ ntask' = ntask + 1
    /\ LET k == MaxPromises + ntask + 1 IN
        /\ _pending_tasks' = add_task(_pending_tasks, make_task(k, FALSE))
        /\ log' = Append(log, Ev("add", k, FALSE, current))
    /\ UNCHANGED <<restVars, cfgVars, timerVars, futVars, current, hist>>

\* engine().add_high_priority_task(make_task(...))
AddHighPriorityTask ==
    /\ ntask < MaxTasks
    /\ ntask' = ntask + 1
    /\ LET k == MaxPromises + ntask + 1 IN
        /\ _pending_tasks' = add_high_priority_task(_pending_tasks, make_task(k, TRUE))
        /\ log' = Append(log, Ev("add", k, TRUE, current))
    /\ UNCHANGED <<restVars, cfgVars, timerVars, futVars, current, hist>>

\* reactor::run_tasks, one turn: a continuation runs to completion; the callable
\* of a sleeper's continuation is delete s, which destroys its timer
RunContinuation ==
    /\ current = 0 /\ _pending_tasks # <<>>
    /\ LET t == Head(_pending_tasks)
           H == [Heap EXCEPT !.q = Tail(_pending_tasks),
                             !.l = Record(Heap, Ev("run", t.id, t.hi, 0))]
           del == t.beh = "delete" /\ Invokes(t) IN
        /\ t.kind \in {"then", "then_wrapped", "finally"}
        /\ Store(run_continuation(H, t),
                 [hist EXCEPT !.nrun[t.id] = @ + 1,
                              !.seen[t.id] = [st |-> t.st, pay |-> t.pay],
                              !.funRan[t.id] = IF Invokes(t) THEN @ + 1 ELSE @])
        /\ StoreWheel(IF del THEN timer_dtor(Wheel, tmr(t.arg)) ELSE Wheel)
        /\ sleepers' = IF del THEN [sleepers EXCEPT ![t.arg].freed = TRUE] ELSE sleepers
    /\ UNCHANGED <<restVars, cfgVars, nprom, _future, owner, current, ntask, now, thist, tlog>>

\* reactor::run_tasks, one turn: a plain task starts
RunTask ==
    /\ current = 0 /\ _pending_tasks # <<>>
    /\ LET t == Head(_pending_tasks) IN
        /\ t.kind = "plain"
        /\ current' = t.id
        /\ _pending_tasks' = Tail(_pending_tasks)
        /\ log' = Append(log, Ev("run", t.id, t.hi, 0))
    /\ UNCHANGED <<restVars, cfgVars, timerVars, futVars, ntask, hist>>

\* the running task returns
TaskReturns ==
    /\ current # 0
    /\ current' = 0
    /\ log' = Append(log, Ev("ret", current, FALSE, 0))
    /\ UNCHANGED <<restVars, cfgVars, timerVars, futVars, _pending_tasks, ntask, hist>>

\* the clock advances
Tick ==
    /\ now < MaxClock
    /\ now' = now + 1
    /\ UNCHANGED <<restVars, cfgVars, futVars, queueVars, hist, timer, _timers, sleepers, thist, tlog>>

\* the history of an arm / arm_periodic call on timer t
Armed(t, until, period) ==
    [thist EXCEPT !.narm[t] = @ + 1, !.gen[t] = @ + 1, !.per[t] = period,
                  !.until[t] = until, !.armAt[t] = now]

\* the application may arm timer t: it is idle and its callback is not due
Idle(t) == ~timer[t]._armed /\ QCount(_pending_tasks, TimerTaskId(t)) = 0

\* t.arm(delta)
Arm(t, delta) ==
    /\ Idle(t) /\ thist.gen[t] < MaxArms
    /\ StoreWheel(arm_duration(Wheel, t, now, delta))
    /\ thist' = Armed(t, now + delta, 0)
    /\ UNCHANGED <<restVars, cfgVars, futVars, queueVars, hist, now, sleepers, tlog>>

\* t.arm_periodic(delta)
ArmPeriodic(t, delta) ==
    /\ Idle(t) /\ thist.gen[t] < MaxArms
    /\ StoreWheel(arm_periodic(Wheel, t, now, delta))
    /\ thist' = Armed(t, now + delta, delta)
    /\ UNCHANGED <<restVars, cfgVars, futVars, queueVars, hist, now, sleepers, tlog>>

\* t.cancel() on an armed timer
Cancel(t) ==
    /\ timer[t]._armed
    /\ StoreWheel(cancel(Wheel, t))
    /\ thist' = [thist EXCEPT !.ncancel[t] = @ + 1]
    /\ UNCHANGED <<restVars, cfgVars, futVars, queueVars, hist, now, sleepers, tlog>>

\* reactor::complete_timers for one expired timer: its callback goes to the
\* ready-task queue; a periodic timer re-arms here (early) or after its callback
Expire(t, early) ==
    /\ t \in _timers /\ timer[t]._expiry <= now
    /\ LET tm == timer[t]
           W == [Wheel EXCEPT !.tm[t]._expired = TRUE, !.tm[t]._queued = FALSE,
                              !.tm[t]._armed = FALSE, !.set = @ \ {t}]
           re == tm._armed /\ tm._period # 0 /\ early IN
        /\ StoreWheel(IF re THEN readd_periodic(W, t, now) ELSE W)
        /\ thist' = [thist EXCEPT !.narm[t] = IF re THEN @ + 1 ELSE @]
        /\ _pending_tasks' =
              IF tm._armed
              THEN add_task(_pending_tasks, timer_task(t, tm._expiry, tm._period # 0 /\ ~early))
              ELSE _pending_tasks
    /\ UNCHANGED <<restVars, cfgVars, futVars, current, ntask, log, hist, now, sleepers, tlog>>

\* reactor::run_tasks, one turn: the callback of a timer is invoked; the
\* callback of a sleeper's timer is done.set_value()
RunTimerCallback ==
    /\ current = 0 /\ _pending_tasks # <<>>
    /\ LET c == Head(_pending_tasks)
           t == c.arg
           H == [Heap EXCEPT !.q = Tail(_pending_tasks)]
           re == c.beh = "readd" /\ ~timer[t]._armed IN
        /\ c.kind = "timer"
        /\ tlog' = Append(tlog, [t |-> t, at |-> now, exp |-> c.pay, gen |-> thist.gen[t],
                                  per |-> thist.per[t], until |-> thist.until[t],
                                  armAt |-> thist.armAt[t]])
        /\ IF t \in UserTimers THEN Store(H, hist)
           ELSE Store(promise_set(H, sleepers[SleeperOf(t)].done, Value(0), c.id), hist)
        /\ StoreWheel(IF re THEN readd_periodic(Wheel, t, now) ELSE Wheel)
        /\ thist' = [thist EXCEPT !.ninv[t] = @ + 1, !.narm[t] = IF re THEN @ + 1 ELSE @]
    /\ UNCHANGED <<restVars, cfgVars, nprom, _future, owner, current, ntask, now, sleepers>>

\* sleep(dur): new sleeper(dur) arms its timer, and the future of its promise
\* gets the continuation that deletes the sleeper
Sleep(dur) ==
    /\ \E k \in Sleepers :
        /\ sleepers[k] = NoSleeper /\ \A j \in 1..(k - 1) : sleepers[j] # NoSleeper
        /\ nprom + 2 <= plimit
        /\ LET t == tmr(k)
               p == nprom + 1
               pr == nprom + 2
               c == continuation(p, "then", "delete", k, pr) IN
            /\ StoreWheel(arm_duration(Wheel, t, now, dur))
            /\ thist' = Armed(t, now + dur, 0)
            /\ sleepers' = [sleepers EXCEPT ![k] = [done |-> p, res |-> pr, at |-> now,
                                                   dur |-> dur, freed |-> FALSE]]
            /\ nprom' = pr
            /\ _future' = [_future EXCEPT ![p] = "used", ![pr] = "held"]
            /\ owner' = [owner EXCEPT ![p] = "sleeper", ![pr] = "cont"]
            /\ Store(future_schedule(Heap, p, c, current),
                     [hist EXCEPT !.nattach[p] = @ + 1, !.att[p] = c])
    /\ UNCHANGED <<restVars, cfgVars, current, ntask, now, tlog>>

Next ==
    \/ NewPromise
    \/ \E p \in Cells : GetFuture(p)
    \/ \E p \in Cells : DropFuture(p)
    \/ \E p \in Cells, v \in Values : SetValue(p, v)
    \/ \E p \in Cells : SetException(p)
    \/ \E p \in Cells, b \in Behs : Then(p, b)
    \/ \E p \in Cells, a \in Cells : ThenReturningFuture(p, a)
    \/ \E p \in Cells, b \in Behs : ThenWrapped(p, b)
    \/ \E p \in Cells, b \in Behs : Finally(p, b)
    \/ \E p \in Cells, q \in Cells : ForwardTo(p, q)
    \/ RunContinuation

Spec == Init /\ [][Next]_vars

NextTask ==
    \/ NewPromise
    \/ \E p \in Cells : GetFuture(p)
    \/ \E p \in Cells, v \in Values : SetValue(p, v)
    \/ \E p \in Cells, b \in Behs : Then(p, b)
    \/ AddTask
    \/ AddHighPriorityTask
    \/ RunContinuation
    \/ RunTask
    \/ TaskReturns

SpecTask == InitTask /\ [][NextTask]_vars

NextTimer ==
    \/ Tick
    \/ \E t \in UserTimers, d \in Durations : Arm(t, d)
    \/ \E t \in UserTimers, d \in Durations : ArmPeriodic(t, d)
    \/ \E t \in UserTimers : Cancel(t)
    \/ \E t \in Timers, early \in BOOLEAN : Expire(t, early)
    \/ RunTimerCallback

SpecTimer == InitTimer /\ [][NextTimer]_vars

NextSleep ==
    \/ Tick
    \/ \E d \in Durations : Sleep(d)
    \/ \E t \in Timers, early \in BOOLEAN : Expire(t, early)
    \/ RunTimerCallback
    \/ \E p \in Cells : Then(p, "ok")
    \/ RunContinuation

SpecSleep == Init /\ [][NextSleep]_vars

\* --------------------------------------------------------------- smp actions
\* smp::submit_to(Receiver, func) on shard a: submit() makes the work item,
\* takes its future and hands it to submit_item
SubmitTo(a, beh) ==
    /\ smp.nsub[0] + smp.nsub[1] < MaxItems
    /\ LET n == smp.nsub[a] + 1 IN
       smp' = submit_item([smp EXCEPT !.nsub[a] = n, !.beh[a][n] = beh], a,
                          work_item(a, n, beh))
    /\ UNCHANGED but_smp

\* smp::poll_queues on the receiver
PollQueuesRx ==
    /\ smp' = poll_rx(smp, Senders)
    /\ smp' # smp
    /\ UNCHANGED but_smp

\* smp::poll_queues on sender a
PollQueuesTx(a) ==
    /\ smp' = poll_tx(smp, a)
    /\ smp' # smp
    /\ UNCHANGED but_smp

\* on the receiver, the future of _func resolves and the then_wrapped
\* continuation of process() runs
ProcessResult(a) ==
    /\ \E wi \in smp.running[a] :
        /\ wi.out = "none" /\ ~wi.pfail
        /\ smp' = [smp EXCEPT !.running[a] = (@ \ {wi}) \cup {process_result(wi)}]
    /\ UNCHANGED but_smp

\* on the receiver, the continuation process().then([this, wi] { respond(wi); })
Respond(a) ==
    /\ \E wi \in smp.running[a] :
        /\ wi.out # "none" /\ ~wi.pfail
        /\ smp' = respond([smp EXCEPT !.running[a] = @ \ {wi}], a, wi)
    /\ UNCHANGED but_smp

\* smp::submit_to(Receiver, func) on shard 0, for every kind of func
SubmitFunc(beh) == smp.nsub[0] < MaxFuncItems /\ SubmitTo(0, beh)

\* smp::submit_to(engine().cpu_id(), func)
SubmitToLocal(beh) ==
    /\ smp.local.out \notin {"pending", "escaped"}
    /\ smp.local # [beh |-> beh, out |-> submit_to_local(beh)]
    /\ smp' = [smp EXCEPT !.local = [beh |-> beh, out |-> submit_to_local(beh)]]
    /\ UNCHANGED but_smp

\* the future that func returned to the local submit_to resolves
LocalResolves ==
    /\ smp.local.out = "pending"
    /\ smp' = [smp EXCEPT !.local.out = func_future(smp.local.beh)]
    /\ UNCHANGED but_smp

NextSmp ==
    \/ \E a \in Senders : SubmitTo(a, "value")
    \/ PollQueuesRx
    \/ \E a \in Senders : PollQueuesTx(a)
    \/ \E a \in Senders : ProcessResult(a)
    \/ \E a \in Senders : Respond(a)

\* work submitted by two shards to a third
SpecSmp == InitTimer /\ [][NextSmp]_vars

NextSubmit ==
    \/ \E b \in FuncBehs : SubmitFunc(b)
    \/ \E b \in FuncBehs : SubmitToLocal(b)
    \/ LocalResolves
    \/ PollQueuesRx
    \/ PollQueuesTx(0)
    \/ ProcessResult(0)
    \/ Respond(0)

\* what submit_to gives back for each kind of func
SpecSubmit == InitTimer /\ [][NextSubmit]_vars

\* ------------------------------------------------------ sleeping and wakeup
\* a sender pushes a work item into the ring
Publish(a) ==
    /\ wk.spc[a] = "idle" /\ wk.npub < MaxPublished
    /\ wk' = [wk EXCEPT !.ring = Append(@, wk.npub + 1), !.npub = @ + 1,
                        !.spc[a] = "pushed"]
    /\ UNCHANGED but_wk

\* the sender goes on to _pending.maybe_wakeup()
MaybeWakeup(a) ==
    /\ wk.spc[a] = "pushed"
    /\ wk' = [maybe_wakeup(wk) EXCEPT !.spc[a] = "idle"]
    /\ UNCHANGED but_wk

\* the reactor polls; a poll that finds nothing lets it go idle
WkPoll ==
    /\ wk.rpc = "poll"
    /\ wk' = IF wk.ring # <<>> THEN wk_poll(wk) ELSE [wk EXCEPT !.rpc = "idle"]
    /\ UNCHANGED but_wk

\* the idle reactor sets _sleeping
SetSleeping ==
    /\ wk.rpc = "idle"
    /\ wk' = [wk EXCEPT !._sleeping = TRUE, !.rpc = "flagged"]
    /\ UNCHANGED but_wk

\* the last poll; the reactor then blocks in epoll_pwait or goes on polling
TryEnterInterruptMode ==
    /\ wk.rpc = "flagged"
    /\ wk' = try_enter_interrupt_mode(wk)
    /\ UNCHANGED but_wk

\* epoll_pwait returns for the eventfd; the reactor clears _sleeping
WakeUp ==
    /\ wk.rpc = "blocked" /\ wk.eventfd > 0
    /\ wk' = [wk EXCEPT !.eventfd = 0, !._sleeping = FALSE, !.rpc = "poll"]
    /\ UNCHANGED but_wk

ReactorStep == WkPoll \/ SetSleeping \/ TryEnterInterruptMode \/ WakeUp

NextWake ==
    \/ \E a \in Senders : Publish(a)
    \/ \E a \in Senders : MaybeWakeup(a)
    \/ WkPoll
    \/ SetSleeping
    \/ TryEnterInterruptMode
    \/ WakeUp

\* every shard is a thread of its own that keeps running: the reactor takes
\* its next step, and a sender that pushed goes on to maybe_wakeup
SpecWake ==
    /\ InitTimer /\ [][NextWake]_vars
    /\ WF_vars(ReactorStep)
    /\ \A a \in Senders : WF_vars(MaybeWakeup(a))

\* ---------------------------------------------------------- the reactor loop
\* poller(std::unique_ptr<pollfn>): a poller registers
RegisterPoller(overrides) ==
    /\ loop.phase = "tasks" /\ Len(loop._pollers) < MaxPollers
    /\ loop' = [loop EXCEPT !._pollers = Append(@, overrides)]
    /\ UNCHANGED but_loop

\* step 1 of the loop: the ready tasks run
LoopRunTask == loop.phase = "tasks" /\ RunTask
LoopTaskReturns == loop.phase = "tasks" /\ TaskReturns

\* step 2: with no task left every poller polls; one that did work may have
\* made a task ready; a turn without work and without tasks goes on to sleep
PollOnce(res, made) ==
    /\ loop.phase = "tasks" /\ _pending_tasks = <<>> /\ current = 0
    /\ DOMAIN res = DOMAIN loop._pollers
    /\ LET k == MaxPromises + ntask + 1
           add == made /\ poll_once(res) /\ ntask < MaxTasks IN
        /\ _pending_tasks' = IF add THEN add_task(_pending_tasks, make_task(k, FALSE))
                             ELSE _pending_tasks
        /\ ntask' = IF add THEN ntask + 1 ELSE ntask
        /\ log' = IF add THEN Append(log, Ev("add", k, FALSE, 0)) ELSE log
        /\ loop' = [loop EXCEPT !.polled = res,
                                !.polled_in_mode = @ \/ (loop.entered # {} /\ res # <<>>),
                                !.phase = IF poll_once(res) \/ add THEN "tasks" ELSE "idle"]
    /\ UNCHANGED <<cfgVars, futVars, current, hist, timerVars, smp, wk, aio, ioq, rd, fin, sink, pfe, th, app, tq, rt, arp, mgr, tune>>

\* step 3: the idle reactor tries to sleep
ReactorSleep(ans) ==
    /\ loop.phase = "idle"
    /\ DOMAIN ans = DOMAIN loop._pollers
    /\ loop' = reactor_sleep(loop, ans)
    /\ UNCHANGED but_loop

\* the sleep ends: every poller leaves interrupt mode and the loop goes on
ReactorWakes ==
    /\ loop.phase = "blocked"
    /\ loop' = [exit_interrupt_mode(loop, DOMAIN loop._pollers) EXCEPT !.phase = "tasks"]
    /\ UNCHANGED but_loop

Answers == UNION {[1..n -> BOOLEAN] : n \in 0..MaxPollers}

NextLoop ==
    \/ \E o \in BOOLEAN : RegisterPoller(o)
    \/ LoopRunTask
    \/ LoopTaskReturns
    \/ \E res \in Answers, made \in BOOLEAN : PollOnce(res, made)
    \/ \E ans \in Answers : ReactorSleep(ans)
    \/ ReactorWakes

SpecLoop == InitTimer /\ [][NextLoop]_vars

\* ---------------------------------------------------------------- AIO context
\* reactor::submit_io: the caller waits for a unit of _io_context_available
SubmitIo ==
    /\ aio.nreq < MaxIo
    /\ aio' = semaphore_wait([aio EXCEPT !.nreq = @ + 1], aio.nreq + 1)
    /\ UNCHANGED but_aio

\* the continuation of the wait runs and queues the iocb
QueueIocb(r) ==
    /\ aio.st[r] = "acquired"
    /\ aio' = submit_io_queue(aio, r)
    /\ UNCHANGED but_aio

\* the AIO-submit poller
FlushPendingAio(k) ==
    /\ k \in 1..Min(Len(aio._pending_aio), max_aio)
    /\ aio' = flush_pending_aio(aio, k)
    /\ UNCHANGED but_aio

\* the AIO-completion poller
ProcessIo(evs) ==
    /\ evs # {} /\ Cardinality(evs) <= max_aio
    /\ \A r \in evs : aio.st[r] = "submitted"
    /\ aio' = process_io(aio, evs)
    /\ UNCHANGED but_aio

NextAio ==
    \/ SubmitIo
    \/ \E r \in Reqs : QueueIocb(r)
    \/ \E k \in 1..max_aio : FlushPendingAio(k)
    \/ \E evs \in SUBSET Reqs : ProcessIo(evs)

SpecAio == InitTimer /\ [][NextAio]_vars

\* ------------------------------------------------------------ fair I/O queue
\* io_queue::queue_request on the coordinator, or on a shard that forwards
\* the request to its coordinator
QueueRequest(c, size, from) ==
    /\ ioq.nreq < MaxFqReqs
    /\ from = "forwarded" => Len(ioq.inflight) < MaxInflight
    /\ LET r == fq_request(c, size, from)
           Q == [ioq EXCEPT !.nreq = @ + 1] IN
        ioq' = IF from = "local" THEN fq_queue(Q, r)
               ELSE [Q EXCEPT !.inflight = Append(@, r), !.last = <<>>]
    /\ UNCHANGED but_ioq

\* a forwarded request arrives at the coordinator
ForwardedArrives ==
    /\ ioq.inflight # <<>>
    /\ ioq' = fq_queue([ioq EXCEPT !.inflight = Tail(@)], Head(ioq.inflight))
    /\ UNCHANGED but_ioq

\* the I/O of a dispatched request completed
RequestFinished(x) ==
    /\ x \in ioq.executing
    /\ ioq' = notify_requests_finished(ioq, x)
    /\ UNCHANGED but_ioq

NextFq ==
    \/ \E c \in Classes, size \in Sizes, from \in Origins : QueueRequest(c, size, from)
    \/ ForwardedArrives
    \/ \E x \in Classes \X (1..MaxFqReqs) : RequestFinished(x)

SpecFq == InitTimer /\ [][NextFq]_vars

\* ------------------------------------------------------------- file: bulk read
\* file::dma_read_bulk(offset, range_size), called directly or by
\* file::dma_read(pos, len), on a file of length F
DmaReadBulk(op, F, align, offset, range_size) ==
    /\ rd.phase = "idle"
    /\ rd' = [dma_read_bulk([rd EXCEPT !.length = F, !.align = align], offset, range_size)
                EXCEPT !.op = op, !.phase = "first"]
    /\ UNCHANGED but_rd

\* the first read, directly into the buffer
FirstRead(k) ==
    /\ rd.phase = "first"
    /\ LET r == read_dma(rd.length, rd._offset, Len(rd.buf), rd.align, k) IN
        rd' = IF r.err THEN [rd EXCEPT !.phase = "failed"]
              ELSE [append_new_data(rd, r.data) EXCEPT
                        !.phase = "loop",
                        !.short = Len(r.data) < Len(rd.buf)
                                  /\ rd._offset + Len(r.data) < rd.length]
    /\ UNCHANGED but_rd

\* one round of the read-copy sequence
ReadMaybeEof(k) ==
    /\ rd.phase = "loop" /\ ~done(rd)
    /\ LET buf1 == read_maybe_eof(rd.length, cur_offset(rd), left_to_read(rd), rd.align, k) IN
        rd' = IF Len(buf1) > 0
              THEN [append_new_data(rd, buf1) EXCEPT
                        !.short = @ \/ (Len(buf1) < align_up(left_to_read(rd), rd.align)
                                        /\ cur_offset(rd) + Len(buf1) < rd.length)]
              ELSE [rd EXCEPT !.eof = TRUE,
                              !.einval = cur_offset(rd) % rd.align # 0]
    /\ UNCHANGED but_rd

\* the read is done: the buffer is trimmed and returned
ReadReturns ==
    /\ rd.phase = "loop" /\ done(rd)
    /\ rd' = [rd EXCEPT !.phase = "done",
                        !.result = IF rd.op = "dma_read"
                                   THEN dma_read_trim(trim_buf_before_ret(rd), rd.range_size)
                                   ELSE trim_buf_before_ret(rd)]
    /\ UNCHANGED but_rd

NextRead ==
    \/ \E op \in {"dma_read_bulk", "dma_read"}, F \in 0..MaxFile, align \in Alignments,
          offset \in 0..MaxOffset, range_size \in 0..MaxRange :
            DmaReadBulk(op, F, align, offset, range_size)
    \/ \E k \in 1..MaxBlocks : FirstRead(k)
    \/ \E k \in 1..MaxBlocks : ReadMaybeEof(k)
    \/ ReadReturns

SpecRead == InitTimer /\ [][NextRead]_vars

\* the first read fails: dma_read_bulk fails with its error
FirstReadFails(e) ==
    /\ rd.phase = "first"
    /\ rd' = [rd EXCEPT !.phase = "failed", !.err = e]
    /\ UNCHANGED but_rd

\* one round of the read-copy sequence on a device that may fail the read
ReadRound(k, e) ==
    /\ rd.phase = "loop" /\ ~done(rd)
    /\ rd' = read_round(rd, k, e)
    /\ UNCHANGED but_rd

\* the steps the reactor takes for a bulk read that was started
ReadStep ==
    \/ \E k \in 0..MaxBlocks : FirstRead(k)
    \/ \E e \in IoErrors : FirstReadFails(e)
    \/ \E k \in 0..MaxBlocks, e \in IoErrors \cup {"none"} : ReadRound(k, e)
    \/ ReadReturns

\* bulk reads with reads that may be short, also of no byte, or fail
NextReadErr ==
    \/ \E F \in 0..MaxFile, align \in Alignments,
          offset \in 0..MaxOffset, range_size \in 0..MaxRange :
            DmaReadBulk("dma_read_bulk", F, align, offset, range_size)
    \/ ReadStep

SpecReadErr == InitTimer /\ [][NextReadErr]_vars /\ WF_vars(ReadStep)

\* -------------------------------------------------------- file input stream
\* make_file_input_stream(f, offset, len, options) on a file of length F
MakeFileInputStream(F, align, offset, len, buffer_size, read_ahead) ==
    /\ fin.phase = "closed"
    /\ fin' = [file_data_source_impl(
                  [fin EXCEPT !.length = F, !.align = align,
                              !.buffer_size = buffer_size, !.read_ahead = read_ahead],
                  offset, len)
               EXCEPT !.phase = "open"]
    /\ UNCHANGED but_fin

\* the reader asks the source for its next buffer
Get ==
    /\ fin.phase = "open" /\ fin.held = 0 /\ fin._done = "none"
    /\ fin' = fin_get(fin)
    /\ UNCHANGED but_fin

\* a read completes and its continuation runs
ReadDone(i) ==
    /\ i \in 1..Len(fin.reads) /\ ~fin.reads[i].ready
    /\ fin' = read_done(fin, i)
    /\ UNCHANGED but_fin

\* the future get() returned is ready: the reader takes the buffer; an empty
\* buffer ends the stream
TakeBuffer ==
    /\ fin.held # 0 /\ fin.reads[fin.held].ready
    /\ LET buf == fin.reads[fin.held].buf IN
        fin' = [fin EXCEPT !.out = @ \o buf, !.held = 0,
                           !.phase = IF buf = <<>> THEN "eof" ELSE @]
    /\ UNCHANGED but_fin

\* the reader closes the source, with reads in flight or not
FinClose ==
    /\ fin.phase \in {"open", "eof"} /\ fin._done = "none"
    /\ fin' = fin_close(fin)
    /\ UNCHANGED but_fin

NextStreamIn ==
    \/ \E F \in 0..MaxStreamFile, align \in Alignments, offset \in 0..MaxStreamStart,
          len \in (0..MaxStreamLen) \cup {uint64_max},
          buffer_size \in BufferSizes, read_ahead \in 0..MaxReadAhead :
            MakeFileInputStream(F, align, offset, len, buffer_size, read_ahead)
    \/ Get
    \/ \E i \in 1..uint64_max : ReadDone(i)
    \/ TakeBuffer

SpecStreamIn == InitTimer /\ [][NextStreamIn]_vars

\* streams over a file of MaxStreamFile bytes that the reader may close at
\* any moment
NextStreamClose ==
    \/ \E align \in Alignments, offset \in 0..1, len \in {MaxStreamLen, uint64_max},
          buffer_size \in BufferSizes, read_ahead \in 0..MaxReadAhead :
            MakeFileInputStream(MaxStreamFile, align, offset, len, buffer_size, read_ahead)
    \/ Get
    \/ \E i \in 1..uint64_max : ReadDone(i)
    \/ TakeBuffer
    \/ FinClose

SpecStreamClose == InitTimer /\ [][NextStreamClose]_vars

\* ------------------------------------------------------- file output stream
\* make_file_output_stream(f, options) on a new file
MakeFileOutputStream(align, write_behind) ==
    /\ sink.phase = "none"
    /\ sink' = [sink EXCEPT !.phase = "open", !.align = align,
                            !.write_behind = write_behind, !.sem = write_behind]
    /\ UNCHANGED but_sink

\* the writer's calls come one after the other: its last call has returned
\* a future that is resolved
WriterReady ==
    /\ sink.phase = "open" /\ Len(sink.ops) < MaxSinkOps
    /\ \A i \in 1..Len(sink.ops) : sink.ops[i].fut # "pending"

\* put(buf): all but the last buffer are multiples of the write alignment
Put(len) ==
    /\ WriterReady
    /\ bit_and(sink._pos, sink.align - 1) = 0
    /\ sink' = put(sink, len)
    /\ UNCHANGED but_sink

PutContinues(i) ==
    /\ i \in 1..Len(sink.ops)
    /\ sink.ops[i].kind = "put" /\ sink.ops[i].st = "acquired"
    /\ sink' = put_continues(sink, i)
    /\ UNCHANGED but_sink

\* a put that found _failed returned the merged future it took over
SkippedPutResolves(i) ==
    /\ i \in 1..Len(sink.ops)
    /\ sink.ops[i].st = "skipped" /\ sink.ops[i].fut = "pending"
    /\ Merged(sink, sink.ops[i].ret) # "pending"
    /\ sink' = [sink EXCEPT !.ops[i].fut = Merged(sink, sink.ops[i].ret)]
    /\ UNCHANGED but_sink

WriteCompletes(i, ok) ==
    /\ i \in 1..Len(sink.ops) /\ sink.ops[i].st = "writing"
    /\ sink' = write_completes(sink, i, ok)
    /\ UNCHANGED but_sink

TruncateCompletes(i) ==
    /\ i \in 1..Len(sink.ops) /\ sink.ops[i].st = "truncating"
    /\ sink' = truncate_completes(sink, i)
    /\ UNCHANGED but_sink

\* flush() or close()
SinkFlush(kind) ==
    /\ WriterReady
    /\ sink' = [sink_flush(sink, kind) EXCEPT
                    !.phase = IF kind = "close" THEN "closing" ELSE @]
    /\ UNCHANGED but_sink

WaitContinues(i) ==
    /\ i \in 1..Len(sink.ops)
    /\ sink.ops[i].kind # "put" /\ sink.ops[i].st = "acquired"
    /\ sink' = wait_continues(sink, i)
    /\ UNCHANGED but_sink

WaitRestores(i) ==
    /\ i \in 1..Len(sink.ops)
    /\ sink.ops[i].st = "bwd" /\ Merged(sink, sink.ops[i].ret) # "pending"
    /\ sink' = wait_restores(sink, i)
    /\ UNCHANGED but_sink

\* _file.flush() or _file.close() completes
FileFlushed(i) ==
    /\ i \in 1..Len(sink.ops) /\ sink.ops[i].st = "file"
    /\ sink' = [sink EXCEPT !.ops[i].st = "done", !.ops[i].fut = "ok"]
    /\ UNCHANGED but_sink

\* what the sink does by itself once the writer has called
SinkStep ==
    \/ \E i \in SinkOps : PutContinues(i)
    \/ \E i \in SinkOps : SkippedPutResolves(i)
    \/ \E i \in SinkOps, ok \in BOOLEAN : WriteCompletes(i, ok)
    \/ \E i \in SinkOps : TruncateCompletes(i)
    \/ \E i \in SinkOps : WaitContinues(i)
    \/ \E i \in SinkOps : WaitRestores(i)
    \/ \E i \in SinkOps : FileFlushed(i)

NextSink ==
    \/ \E align \in Alignments, wb \in 0..MaxWriteBehind : MakeFileOutputStream(align, wb)
    \/ \E len \in PutSizes : Put(len)
    \/ \E kind \in {"flush", "close"} : SinkFlush(kind)
    \/ \E i \in SinkOps : PutContinues(i)
    \/ \E i \in SinkOps : SkippedPutResolves(i)
    \/ \E i \in SinkOps, ok \in BOOLEAN : WriteCompletes(i, ok)
    \/ \E i \in SinkOps : TruncateCompletes(i)
    \/ \E i \in SinkOps : WaitContinues(i)
    \/ \E i \in SinkOps : WaitRestores(i)
    \/ \E i \in SinkOps : FileFlushed(i)

\* every write and every continuation that can run does run
SpecSink == InitTimer /\ [][NextSink]_vars /\ WF_vars(SinkStep)

\* --------------------------------------------------------- parallel_for_each
ParallelForEach(n) ==
    /\ pfe.result = "none"
    /\ pfe' = parallel_for_each(pfe, n)
    /\ UNCHANGED but_pfe

\* the future func returned for element i resolves
SubCompletes(i, ok) ==
    /\ pfe.sub[i] = "running"
    /\ pfe' = [pfe EXCEPT !.sub[i] = IF ok THEN "ok" ELSE "failed"]
    /\ UNCHANGED but_pfe

\* the continuation on that future runs
SubNoted(i) ==
    /\ pfe.sub[i] \in {"ok", "failed"} /\ i \notin pfe.noted
    /\ pfe' = pfe_note(pfe, i)
    /\ UNCHANGED but_pfe

NextPfe ==
    \/ \E n \in 0..MaxSubOps : ParallelForEach(n)
    \/ \E i \in SubOps, ok \in BOOLEAN : SubCompletes(i, ok)
    \/ \E i \in SubOps : SubNoted(i)

SpecPfe == InitTimer /\ [][NextPfe]_vars

\* -------------------------------------------------------------------- fibers
Async(f, func) ==
    /\ th.fib[f].work = "none"
    /\ th' = ran_meanwhile(async(th, f, func), f)
    /\ UNCHANGED but_th

Fulfil(f, ok) ==
    /\ th.fib[f].st = "parked" /\ th.fib[f].awaited = "pending"
    /\ th' = fiber_wake(th, f, ok)
    /\ UNCHANGED but_th

OtherTask ==
    /\ th.others = 0
    /\ \E f \in Fibers : th.fib[f].st = "parked" /\ th.fib[f].awaited = "pending"
    /\ th' = [th EXCEPT !.q = Append(@, <<"other", 0>>), !.others = @ + 1]
    /\ UNCHANGED but_th

RunFiberTask ==
    /\ th.q # <<>>
    /\ th' = run_fiber_task(th)
    /\ UNCHANGED but_th

NextThread ==
    \/ \E f \in Fibers, func \in Funcs : Async(f, func)
    \/ \E f \in Fibers, ok \in BOOLEAN : Fulfil(f, ok)
    \/ OtherTask
    \/ RunFiberTask

SpecThread == InitTimer /\ [][NextThread]_vars

\* -------------------------------------------------------------- app_template
AppRun(a) ==
    /\ app.phase = "init"
    /\ app' = run_deprecated(app, a)
    /\ UNCHANGED but_app

CallApp(beh, v) ==
    /\ app.phase = "started"
    /\ app' = call_app(app, beh, v)
    /\ UNCHANGED but_app

AppResolves(ok, v) ==
    /\ app.phase = "called" /\ app.fut = "pending"
    /\ app' = [app EXCEPT !.fut = IF ok THEN "value" ELSE "failed", !.late = TRUE,
                          !.value = IF ok /\ app.args.overload = "int" THEN v ELSE 0]
    /\ UNCHANGED but_app

AppHandled ==
    /\ app.phase = "called" /\ app.fut # "pending"
    /\ app' = app_handled(app)
    /\ UNCHANGED but_app

\* engine().run() returns once exit() was called
AppRunReturns ==
    /\ app.phase = "handled" /\ app.stopped
    /\ app' = [app EXCEPT !.ret = app._return, !.phase = "returned"]
    /\ UNCHANGED but_app

NextApp ==
    \/ \E a \in AppArgs : AppRun(a)
    \/ \E beh \in AppBehs, v \in ExitCodes : CallApp(beh, v)
    \/ \E ok \in BOOLEAN, v \in ExitCodes : AppResolves(ok, v)
    \/ AppHandled
    \/ AppRunReturns

SpecApp == InitTimer /\ [][NextApp]_vars

\* ------------------------------------------------------------ the task quota
QuotaRunTask(k) ==
    /\ tq.pc = 0 /\ run_tasks_goes_on(tq)
    /\ tq' = run_one_task(tq, k)
    /\ UNCHANGED but_tq

RunTasksReturns ==
    /\ tq.pc = 0 /\ ~run_tasks_goes_on(tq)
    /\ tq' = run_tasks_returns(tq)
    /\ UNCHANGED but_tq

PollPoller(p) ==
    /\ tq.pc = p
    /\ tq' = poll_poller(tq, p)
    /\ UNCHANGED but_tq

\* the signal of the quota timer: its handler sets the flag
QuotaTimerFires ==
    /\ tq' = [tq EXCEPT !._task_quota_finished = TRUE]
    /\ UNCHANGED but_tq

QuotaReactorStep == (\E k \in 0..2 : QuotaRunTask(k)) \/ RunTasksReturns \/ (\E p \in QPollers : PollPoller(p))

NextQuota ==
    \/ \E k \in 0..2 : QuotaRunTask(k)
    \/ RunTasksReturns
    \/ \E p \in QPollers : PollPoller(p)
    \/ QuotaTimerFires

\* the reactor thread keeps running and the quota timer keeps firing
SpecQuota == InitTimer /\ [][NextQuota]_vars /\ WF_vars(QuotaReactorStep) /\ WF_vars(QuotaTimerFires)

\* ------------------------------------------- arm, rearm and cancel of a timer
\* t.arm(now + delta, period), by a caller that knows the timer is not armed
ArmUnarmed(t, delta, period) ==
    /\ ~timer[t]._armed /\ rt.calls < MaxCalls /\ now + delta <= MaxClock
    /\ StoreWheel(arm(Wheel, t, now + delta, period))
    /\ rt' = rt_armed(rt, Wheel, t, "arm", now + delta,
                      thist.ninv[t] + QCount(_pending_tasks, TimerTaskId(t)))
    /\ UNCHANGED <<restButRt, cfgVars, futVars, queueVars, hist, now, sleepers, thist, tlog>>

\* t.rearm(now + delta, period), in any state
Rearm(t, delta, period) ==
    /\ rt.calls < MaxCalls /\ now + delta <= MaxClock
    /\ StoreWheel(rearm(Wheel, t, now + delta, period))
    /\ rt' = rt_armed(rt, rearm_cancels(Wheel, t), t, "rearm",
                      now + delta, thist.ninv[t] + QCount(_pending_tasks, TimerTaskId(t)))
    /\ UNCHANGED <<restButRt, cfgVars, futVars, queueVars, hist, now, sleepers, thist, tlog>>

\* t.cancel(), in any state
CancelAny(t) ==
    /\ rt.calls < MaxCalls
    /\ StoreWheel(cancel(Wheel, t))
    /\ rt' = [rt EXCEPT !.calls = @ + 1, !.ret = IF cancel_returns(Wheel, t) THEN "true" ELSE "false",
                        !.was_armed = timer[t]._armed, !.cancelled = TRUE, !.last = "cancel",
                        !.narm0 = thist.narm[t]]
    /\ UNCHANGED <<restButRt, cfgVars, futVars, queueVars, hist, now, sleepers, thist, tlog>>

NextRearm ==
    \/ Tick
    \/ \E t \in UserTimers, d \in Durations, per \in 0..1 : ArmUnarmed(t, d, per)
    \/ \E t \in UserTimers, d \in Durations, per \in 0..1 : Rearm(t, d, per)
    \/ \E t \in UserTimers : CancelAny(t)
    \/ \E t \in Timers, early \in BOOLEAN : Expire(t, early)
    \/ RunTimerCallback

SpecRearm == InitTimer /\ [][NextRearm]_vars


\* ----------------------------------------------------------------------- arp
\* the stack asks for the hardware address of paddr
Lookup(paddr) ==
    /\ Len(arp.futs) < MaxLookups
    /\ arp' = lookup(arp, paddr)
    /\ UNCHANGED but_arp

\* an ARP reply of any sender arrives
Learn(hwaddr, paddr) ==
    /\ arp' = learn(arp, hwaddr, paddr)
    /\ UNCHANGED but_arp

\* the periodic timer of a resolution in progress fires
TimeoutFires(paddr) ==
    /\ arp._in_progress[paddr].present /\ arp._in_progress[paddr].armed
    /\ arp' = timeout_callback(arp, paddr)
    /\ UNCHANGED but_arp

\* the host is given its address
SetSelfAddr(addr) ==
    /\ arp' = set_self_addr(arp, addr)
    /\ UNCHANGED but_arp

NextArp ==
    \/ \E paddr \in L3Addrs : Lookup(paddr)
    \/ \E hwaddr \in PeerHw, paddr \in L3Addrs : Learn(hwaddr, paddr)
    \/ \E paddr \in L3Addrs : TimeoutFires(paddr)
    \/ \E addr \in SelfAddrs : SetSelfAddr(addr)

SpecArp == InitTimer /\ [][NextArp]_vars


\* -------------------------------------------------------------------- iotune
\* one run of all threads at _next_concurrency measures iops, and thread 0
\* analyzes the result
TuneRound(iops, ubp, ubn) ==
    /\ mgr._test_done = "no"
    /\ LET M == IF mgr._next_concurrency # 0
                THEN [mgr EXCEPT !._test_result = run_stats(iops, mgr._next_concurrency)]
                ELSE mgr IN
        mgr' = analyze_results(M, M._test_result, ubp, ubn)
    /\ UNCHANGED but_mgr

NextSearch == \E iops \in 0..MaxIops, ubp \in UbFirsts, ubn \in UbFirsts : TuneRound(iops, ubp, ubn)

SpecSearch == InitTimer /\ [][NextSearch]_vars /\ WF_vars(NextSearch)


\* ------------------------------------------------------- the threads of iotune
\* io_queue_discovery(dir, cpus) spawns the threads
Spawn(n) ==
    /\ tune.n = 0
    /\ tune' = spawn_new(n)
    /\ UNCHANGED but_tune

Running(t) == t < tune.n /\ ~tune.crashed

\* get_thread_concurrency: _start_run_barrier.wait()
ArriveStart(t) ==
    /\ Running(t) /\ tune.pc[t] = "start" /\ tune.round[t] < MaxRounds
    /\ tune' = arrive(tune, t, "_start_run_barrier", "wait_start", "share")
    /\ UNCHANGED but_tune

\* a waiting thread sees the generation of its barrier changed
PassBarrier(t) ==
    /\ Running(t)
    /\ \/ /\ tune.pc[t] = "wait_start" /\ tune._start_run_barrier.generation # tune.gen[t]
          /\ tune' = [tune EXCEPT !.pc[t] = "share"]
       \/ /\ tune.pc[t] = "wait_finish" /\ tune._finish_run_barrier.generation # tune.gen[t]
          /\ tune' = [tune EXCEPT !.pc[t] = "analyze"]
       \/ /\ tune.pc[t] = "wait_results" /\ tune._results_barrier.generation # tune.gen[t]
          /\ tune' = [tune EXCEPT !.pc[t] = "decide"]
    /\ UNCHANGED but_tune

\* get_thread_concurrency after the barrier, and the branch of run_test
Share(t, size) ==
    /\ Running(t) /\ tune.pc[t] = "share" /\ size \in ThreadsSizes(tune, t)
    /\ tune' = IF size = 0 THEN [tune EXCEPT !.crashed = TRUE]
               ELSE LET c == get_thread_concurrency(mgr._next_concurrency, t, size) IN
                    [tune EXCEPT !.my_concurrency[t] = c,
                                 !.pc[t] = IF c = 0 THEN "skip"
                                           ELSE IF t = 0 THEN "settime" ELSE "dec"]
    /\ UNCHANGED but_tune

\* run_test with concurrency 0
SkipRun(t) ==
    /\ Running(t) /\ tune.pc[t] = "skip"
    /\ tune' = [tune EXCEPT !._time_run_atomic = @ - run_test_signals(0),
                            !.early[t] = @ + 1,
                            !.pc[t] = "finish"]
    /\ UNCHANGED but_tune

\* get_start_time, cpu_id == 0: the result is reset and the start time set
SetStartTime ==
    /\ Running(0) /\ tune.pc[0] = "settime"
    /\ tune' = [tune EXCEPT !._run_start_time = tune.now + 1, !.now = @ + 1,
                            !.set_in = tune.round[0] + 1, !.pc[0] = "dec"]
    /\ mgr' = [mgr EXCEPT !._test_result = run_stats(0, 0)]
    /\ UNCHANGED but_mgr_tune

\* get_start_time: _time_run_atomic.fetch_sub(1)
FetchSub(t) ==
    /\ Running(t) /\ tune.pc[t] = "dec"
    /\ tune' = [tune EXCEPT !._time_run_atomic = @ - 1, !.pc[t] = "spin"]
    /\ UNCHANGED but_tune

\* get_start_time: the busy wait ends and _run_start_time is returned
SpinEnds(t) ==
    /\ Running(t) /\ tune.pc[t] = "spin" /\ tune._time_run_atomic = 0
    /\ tune' = [tune EXCEPT !.start_time[t] = tune._run_start_time, !.pc[t] = "io"]
    /\ UNCHANGED but_tune

\* issue_reads returns and run_test adds its result to _test_result; the
\* readers of thread 0 measure iops, those of the other threads 0
IssueReads(t, iops) ==
    /\ Running(t) /\ tune.pc[t] = "io" /\ (t = 0 \/ iops = 0)
    /\ mgr' = [mgr EXCEPT !._test_result =
                    run_stats(Min(@.IOPS + iops, MaxIops), @.concurrency + tune.my_concurrency[t])]
    /\ tune' = [tune EXCEPT !.pc[t] = "finish"]
    /\ UNCHANGED but_mgr_tune

\* run_test: _finish_run_barrier.wait()
ArriveFinish(t) ==
    /\ Running(t) /\ tune.pc[t] = "finish"
    /\ tune' = arrive(tune, t, "_finish_run_barrier", "wait_finish", "analyze")
    /\ UNCHANGED but_tune

\* analyze_results up to the barrier: thread 0 analyzes, each thread adds 1
\* to _time_run_atomic and waits at _results_barrier
AnalyzeResults(t, ubp, ubn) ==
    /\ Running(t) /\ tune.pc[t] = "analyze"
    /\ mgr' = IF t = 0 THEN analyze_results(mgr, mgr._test_result, ubp, ubn) ELSE mgr
    /\ tune' = arrive([tune EXCEPT !._time_run_atomic = @ + 1], t,
                      "_results_barrier", "wait_results", "decide")
    /\ UNCHANGED but_mgr_tune

\* analyze_results returns _test_done, and the thread loops or ends
Decide(t) ==
    /\ Running(t) /\ tune.pc[t] = "decide"
    /\ tune' = [tune EXCEPT !.decided[t] = mgr._test_done,
                            !.round[t] = @ + 1,
                            !.pc[t] = IF mgr._test_done = "yes" THEN "exit" ELSE "start"]
    /\ UNCHANGED but_tune

ThreadStep(t) ==
    \/ ArriveStart(t)
    \/ PassBarrier(t)
    \/ \E size \in 0..Cardinality(Tids) : Share(t, size)
    \/ SkipRun(t)
    \/ FetchSub(t)
    \/ SpinEnds(t)
    \/ \E iops \in 0..1 : IssueReads(t, iops)
    \/ ArriveFinish(t)
    \/ \E ubp \in UbFirsts, ubn \in UbFirsts : AnalyzeResults(t, ubp, ubn)
    \/ Decide(t)

NextTune ==
    \/ \E n \in 1..Cardinality(Tids) : Spawn(n)
    \/ SetStartTime
    \/ \E t \in Tids : ThreadStep(t)

SpecTune ==
    /\ InitTimer /\ [][NextTune]_vars
    /\ WF_vars(SetStartTime) /\ \A t \in Tids : WF_vars(ThreadStep(t))

\* ------------------------------------------------------------ properties
\* the outcome that reached promise p, wherever its state now lives
Outcome(p) == _state[Target(fwd, p)]
Attached(p) == hist.att[p] # NoTask
Quiet == _pending_tasks = <<>> /\ current = 0

RECURSIVE Downstream(_)
\* the promises of the chain built on p's future, nearest first
Downstream(p) ==
    IF Attached(p) THEN {hist.att[p].pr} \cup Downstream(hist.att[p].pr) ELSE {}

\* how often p's continuation was placed on the ready-task queue
Sched(p) == QCount(_pending_tasks, p) + hist.nrun[p]

C2_FinallyRunsOnceBeforeNext ==
    \A p \in Cells :
        hist.att[p].kind = "finally" =>
            /\ hist.funRan[p] <= 1
            /\ hist.funRan[p] = hist.nrun[p]
            /\ (Quiet /\ Available(_state[p])) => hist.funRan[p] = 1
            /\ \A q \in Downstream(p) : hist.nrun[q] > 0 => hist.funRan[p] = 1

C2_Witness ==
    \E p \in Cells :
        /\ hist.att[p].kind = "finally" /\ hist.seen[p].st = "failed"
        /\ hist.funRan[p] = 1
        /\ hist.att[hist.att[p].pr].kind = "then"
        /\ hist.nrun[hist.att[p].pr] = 1

\* C3: a failing finally() action fails the result when the upstream succeeded
\* (a then() after it is skipped), and the upstream failure is kept when the
\* upstream had failed.
C3_FinallyActionFailure ==
    \A p \in Cells :
        (hist.att[p].kind = "finally" /\ hist.att[p].beh = "throw") =>
            LET pr == hist.att[p].pr IN
            /\ (Quiet /\ Available(_state[p])) => hist.nrun[p] = 1
            /\ (hist.nrun[p] > 0 /\ hist.seen[p].st = "value") =>
                    /\ Outcome(pr) = Failed(p)
                    /\ hist.att[pr].kind = "then" => hist.funRan[pr] = 0
            /\ (hist.nrun[p] > 0 /\ hist.seen[p].st = "failed") =>
                    Outcome(pr) = hist.seen[p]

C3_Witness ==
    \E p \in Cells, q \in Cells :
        /\ hist.att[p].kind = "finally" /\ hist.att[p].beh = "throw"
        /\ hist.seen[p].st = "value" /\ hist.nrun[p] = 1
        /\ hist.att[hist.att[p].pr].kind = "then" /\ hist.nrun[hist.att[p].pr] = 1
        /\ hist.att[q].kind = "finally" /\ hist.att[q].beh = "throw"
        /\ hist.seen[q].st = "failed" /\ hist.nrun[q] = 1

\* C4: a failure reaches every continuation unchanged; then() continuations
\* downstream of it are skipped and pass it on, a then_wrapped() continuation
\* runs and sees it, a callable that throws fails its result, and a future
\* returned by a callable hands its later outcome to the result.
C4_FailurePropagates ==
    \A p \in Cells :
        Attached(p) =>
            LET c == hist.att[p] IN
            /\ (Quiet /\ Available(_state[p])) => hist.nrun[p] = 1
            /\ hist.nrun[p] > 0 => hist.seen[p] = _state[p]
            /\ (c.kind = "then" /\ hist.nrun[p] > 0 /\ hist.seen[p].st = "failed") =>
                    hist.funRan[p] = 0 /\ Outcome(c.pr) = hist.seen[p]
            /\ (c.kind = "then_wrapped" /\ hist.nrun[p] > 0) => hist.funRan[p] = 1
            /\ (c.kind \in {"then", "then_wrapped"} /\ c.beh = "throw"
                    /\ hist.funRan[p] > 0) => Outcome(c.pr) = Failed(p)
            /\ (c.beh = "fut" /\ hist.funRan[p] > 0 /\ Available(hist.given[c.arg])) =>
                    Outcome(c.pr) = hist.given[c.arg]

C4_Witness ==
    \E p \in Cells :
        LET c == hist.att[p] IN
        /\ c.beh = "fut" /\ hist.funRan[p] = 1
        /\ fwd[c.arg] = c.pr /\ hist.given[c.arg] = Failed(0)
        /\ hist.att[c.pr].kind = "then_wrapped"
        /\ hist.funRan[c.pr] = 1 /\ hist.seen[c.pr] = Failed(0)

RECURSIVE Given(_)
\* the outcome handed to promise p, directly or through a future forwarded to it
Given(p) ==
    IF Available(hist.given[p]) THEN hist.given[p]
    ELSE IF \E p0 \in Cells : hist.fto[p0] = p
         THEN Given(CHOOSE p0 \in Cells : hist.fto[p0] = p)
         ELSE Pending

\* C5: after f1.forward_to(p2) the future of p2 has exactly the outcome of f1:
\* at once when f1 was ready, not before f1's promise is fulfilled otherwise; a
\* continuation on p2's future then runs with that outcome, and nothing is
\* scheduled for a promise without a continuation.
C5_ForwardTo ==
    \A p1 \in Cells :
        hist.fto[p1] # 0 =>
            LET p2 == hist.fto[p1] IN
            /\ Outcome(p2) = Given(p1)
            /\ (Quiet /\ Attached(p2) /\ Available(Given(p1))) =>
                    hist.nrun[p2] = 1 /\ hist.seen[p2] = Given(p1)
            /\ ~Attached(p2) => Sched(p2) = 0

C5_Witness ==
    \E p1 \in Cells :
        LET p2 == hist.fto[p1] IN
        /\ p2 # 0 /\ fwd[p1] = p2
        /\ Attached(p2) /\ hist.nrun[p2] = 1 /\ hist.seen[p2] = Failed(0)

\* ---- the event history of the ready-task queue
Idx == 1..Len(log)
TaskIds == 1..(MaxPromises + MaxTasks)
IsEnq(i) == log[i].ev \in {"add", "wake"}
IsRun(i) == log[i].ev = "run"
IsPlain(x) == x > MaxPromises
\* where each task started, and where each plain task returned
RunsOf == [x \in TaskIds |-> {k \in Idx : IsRun(k) /\ log[k].id = x}]
RetsOf == [x \in TaskIds |-> {k \in Idx : log[k].ev = "ret" /\ log[k].id = x}]

\* C6: normal tasks run in the order they were enqueued; once a high-priority
\* task is added no normal task starts before it has run, also not one enqueued
\* after it; and no task starts before the running task has returned.
C6_TaskOrder ==
    LET R == RunsOf
        E == RetsOf
        Enq == {i \in Idx : IsEnq(i)}
        NormalEnq == {i \in Enq : ~log[i].hi}
        HighEnq == {i \in Enq : log[i].hi}
        Runs == {i \in Idx : IsRun(i)} IN
    /\ \A i \in Enq :
          /\ Cardinality(R[log[i].id]) <= 1
          /\ Quiet => R[log[i].id] # {}
    /\ \A i \in NormalEnq, j \in NormalEnq :
          i < j => \A k \in R[log[j].id] : \E m \in R[log[i].id] : m < k
    /\ \A i \in HighEnq, j \in Runs :
          (i < j /\ ~log[j].hi) => \E k \in R[log[i].id] : k < j
    /\ \A i \in Runs, j \in Runs :
          (i < j /\ IsPlain(log[i].id)) => \E r \in E[log[i].id] : i < r /\ r < j

C6_Witness ==
    \E i \in Idx, j \in Idx :
        /\ i < j
        /\ IsRun(i) /\ IsPlain(log[i].id)
        /\ IsEnq(j) /\ log[j].hi /\ log[j].in = log[i].id
        /\ \E k \in Idx :
            /\ j < k
            /\ IsEnq(k) /\ log[k].id \in Cells /\ log[k].in = log[i].id
            /\ \E l \in RunsOf[log[j].id], m \in RunsOf[log[k].id] : k < l /\ l < m

\* C7: a continuation made ready by a fulfilment inside task T runs after T has
\* returned and after every task that was queued at the fulfilment.
C7_ContinuationRunsLater ==
    LET R == RunsOf
        E == RetsOf
        Enq == {i \in Idx : IsEnq(i)} IN
    \A i \in Enq :
        (log[i].ev = "wake" /\ log[i].in # 0) =>
            /\ Quiet => R[log[i].id] # {}
            /\ \A k \in R[log[i].id] :
                /\ i < k
                /\ IsPlain(log[i].in) => \E r \in E[log[i].in] : i < r /\ r < k
                /\ \A a \in Enq :
                      (a < i /\ ~\E r \in R[log[a].id] : r < i) =>
                          \E r \in R[log[a].id] : r < k

C7_Witness ==
    \E i \in Idx :
        /\ log[i].ev = "wake" /\ IsPlain(log[i].in)
        /\ RunsOf[log[i].id] # {}
        /\ \E a \in Idx :
            /\ a < i /\ IsEnq(a) /\ ~log[a].hi
            /\ RunsOf[log[a].id] # {}
            /\ \A r \in RunsOf[log[a].id] : i < r

\* ------------------------------------------------------------------ timers
TIdx == 1..Len(tlog)
PendingCb(t) == QCount(_pending_tasks, TimerTaskId(t))
ArmedNow(t) == IF timer[t]._armed THEN 1 ELSE 0

\* invocation j is the one that follows invocation i of the same timer, armed
\* by the same arm / arm_periodic call
Consecutive(i, j) ==
    /\ i < j /\ tlog[i].t = tlog[j].t /\ tlog[i].gen = tlog[j].gen
    /\ \A k \in (i + 1)..(j - 1) : tlog[k].t # tlog[i].t

\* C8: a timer armed once with expiry t and no period has its callback invoked
\* exactly once, at a clock reading >= t and never before, and not again unless
\* it is armed again: every arming is still armed, or was cancelled, or has its
\* one invocation due or done, and one arming never has two invocations.
C8_OneShotFiresOnce ==
    /\ \A t \in Timers :
          thist.ninv[t] + PendingCb(t) + ArmedNow(t) + thist.ncancel[t] = thist.narm[t]
    /\ \A i \in TIdx :
          tlog[i].per = 0 =>
             /\ tlog[i].at >= tlog[i].until
             /\ tlog[i].exp = tlog[i].until
             /\ \A j \in TIdx : ~Consecutive(i, j)

\* a one-shot timer was invoked, late, and then again after it was armed again
C8_Witness ==
    \E i, j \in TIdx :
        /\ i < j /\ tlog[i].t = tlog[j].t /\ tlog[i].gen < tlog[j].gen
        /\ tlog[i].per = 0 /\ tlog[j].per = 0
        /\ tlog[i].at > tlog[i].until
        /\ thist.ninv[tlog[i].t] = 2 /\ thist.narm[tlog[i].t] = 2
        /\ ~timer[tlog[i].t]._armed /\ now > tlog[j].at

Freed(s) == s.freed

\* C10: the future returned by sleep(d) is not ready before the clock has
\* advanced by d since the call; it becomes ready exactly once, when the
\* one-shot timer fires; and the sleeper is freed only after that, by the
\* continuation attached to the future of its promise.
C10_Sleep ==
    \A k \in Sleepers :
        LET s == sleepers[k]
            t == tmr(k) IN
        s # NoSleeper =>
           /\ Available(_state[s.res]) => now >= s.at + s.dur
           /\ Available(_state[s.done]) <=> thist.ninv[t] = 1
           /\ thist.narm[t] = 1 /\ thist.ninv[t] <= 1 /\ timer[t]._period = 0
           /\ hist.nattach[s.done] = 1 /\ Sched(s.done) <= 1
           /\ Available(_state[s.res]) <=> Freed(s)
           /\ Freed(s) =>
                 /\ hist.funRan[s.done] = 1 /\ hist.nrun[s.done] = 1
                 /\ thist.ninv[t] = 1
                 /\ \A i \in TIdx : tlog[i].t = t => tlog[i].at >= s.at + s.dur
                 /\ ~timer[t]._armed /\ ~timer[t]._queued /\ t \notin _timers
                 /\ PendingCb(t) = 0

\* sleep(2) was called after the clock had advanced, the sleeper is freed and
\* the continuation of the caller has run
C10_Witness ==
    \E k \in Sleepers :
        LET s == sleepers[k] IN
        /\ s # NoSleeper /\ s.at > 0 /\ s.dur = MaxDur
        /\ Freed(s) /\ Available(_state[s.res])
        /\ hist.funRan[s.res] = 1
        /\ now >= s.at + s.dur /\ Quiet

\* ---------------------------------------------------------------- smp queues
XIdx == 1..Len(smp.executed)
Submitted(a) == 1..smp.nsub[a]

\* how often item n of sender a occurs in a sequence or a set of work items
InSeq(q, a, n) == Cardinality({i \in 1..Len(q) : q[i].from = a /\ q[i].n = n})
InSet(S, a, n) == Cardinality({w \in S : w.from = a /\ w.n = n})

\* where item n of sender a is: not yet run, run and on its way back
Unprocessed(a, n) == InSeq(smp.pending_fifo[a], a, n) + InSeq(smp._pending[a], a, n)
Processed(a, n) ==
    InSet(smp.running[a], a, n) + InSeq(smp._completed_fifo[a], a, n)
        + InSeq(smp._completed[a], a, n)

SmpQuiet ==
    \A a \in Senders :
        /\ smp.pending_fifo[a] = <<>> /\ smp._pending[a] = <<>> /\ smp.running[a] = {}
        /\ smp._completed_fifo[a] = <<>> /\ smp._completed[a] = <<>>

\* C11: the work items one shard submits to another are executed there in the
\* order of submission, also when some of them waited in the overflow deque;
\* those still queued are queued in that order behind the ones executed.
C11_SubmitOrderKept ==
    /\ \A i, j \in XIdx :
          i < j /\ smp.executed[i][1] = smp.executed[j][1]
             => smp.executed[i][2] < smp.executed[j][2]
    /\ \A a \in Senders :
          LET q == smp._pending[a] \o smp.pending_fifo[a] IN
          /\ \A i, j \in 1..Len(q) : i < j => q[i].n < q[j].n
          /\ \A i \in 1..Len(q), x \in XIdx :
                smp.executed[x][1] = a => smp.executed[x][2] < q[i].n

\* an item that waited in the overflow deque with the ring full ran before
\* the item submitted after it, which had waited too
C11_Witness ==
    \E i, j \in XIdx :
        /\ i < j /\ smp.executed[i][1] = smp.executed[j][1]
        /\ smp.executed[j][2] = smp.executed[i][2] + 1
        /\ smp.waited[smp.executed[i][1]][smp.executed[i][2]] > SpillRetryBudget
        /\ smp.waited[smp.executed[j][1]][smp.executed[j][2]] > 0

\* C12: every submitted work item is executed on the receiver exactly once and
\* its promise is fulfilled on the sender exactly once, with more items
\* outstanding than a ring holds: an item is in exactly one place until it is
\* completed, and when the queues are empty every item has been completed.
C12_ExactlyOnce ==
    \A a \in Senders, n \in ItemNos :
        IF n \in Submitted(a)
        THEN /\ Unprocessed(a, n) + Processed(a, n) + smp.nset[a][n] = 1
             /\ smp.nexec[a][n] = Processed(a, n) + smp.nset[a][n]
             /\ smp._promise[a][n] = "pending" <=> smp.nset[a][n] = 0
             /\ SmpQuiet => smp.nexec[a][n] = 1 /\ smp.nset[a][n] = 1
        ELSE smp.nexec[a][n] = 0 /\ smp.nset[a][n] = 0

\* four items of one sender were outstanding with a ring of two slots, two of
\* them spilled, and all of them are completed
C12_Witness ==
    /\ smp.nsub[0] = MaxItems /\ SmpQuiet
    /\ \A n \in ItemNos : smp.nset[0][n] = 1
    /\ smp.waited[0][MaxItems] > 0 /\ smp.waited[0][MaxItems - 1] > 0

\* C13 (as stated): once the ring has stayed full beyond the spill-retry
\* budget, the future of the submission has failed.
C13_QueueFullFails ==
    \A a \in Senders, n \in ItemNos :
        smp.waited[a][n] > SpillRetryBudget => smp._promise[a][n] = "failed"

\* C13 (amended): while the ring stays full the work item waits in the
\* overflow deque and the future of the submission stays pending; it never
\* fails for a full queue, and resolves with what func produced once the item
\* has been sent, executed and returned.
C13_SpilledItemWaits ==
    \A a \in Senders : \A n \in Submitted(a) :
        /\ Unprocessed(a, n) > 0 => smp._promise[a][n] = "pending"
        /\ smp._promise[a][n] # "pending" =>
              /\ smp.nexec[a][n] = 1
              /\ smp._promise[a][n] = Produced(smp.beh[a][n])

\* an item waited through more flushes than the budget and its future then
\* resolved with the value of func
C13_Witness ==
    \E a \in Senders : \E n \in Submitted(a) :
        /\ smp.waited[a][n] > SpillRetryBudget
        /\ smp._promise[a][n] = "value" /\ smp.beh[a][n] = "value"

\* C15: the future of submit_to(t, func) resolves with what func produced, a
\* value or a failure; the future of process() never fails, so the item is
\* always sent back and the promise is always fulfilled; and on the calling
\* shard a func that throws gives a failed future, no exception leaves
\* submit_to.
C15_SubmitToResult ==
    /\ \A a \in Senders : \A n \in Submitted(a) :
          /\ \A w \in smp.running[a] : ~w.pfail
          /\ smp._promise[a][n] # "pending" =>
                smp._promise[a][n] = Produced(smp.beh[a][n])
          /\ SmpQuiet => smp._promise[a][n] # "pending"
    /\ smp.local.out # "escaped"
    /\ smp.local.out \notin {"none", "pending"} => smp.local.out = Produced(smp.local.beh)

\* a func that throws and one that returns a failing future were submitted to
\* the other shard and their futures failed, and a throwing func was
\* submitted to the own shard
C15_Witness ==
    /\ smp.nsub[0] = MaxFuncItems /\ SmpQuiet
    /\ smp.beh[0][1] = "throw" /\ smp._promise[0][1] = "failed"
    /\ smp.beh[0][MaxFuncItems] = "fut_failed" /\ smp._promise[0][MaxFuncItems] = "failed"
    /\ smp.local = [beh |-> "throw", out |-> "failed"]

Outstanding == {r \in Reqs : aio.st[r] \in {"queued", "submitted"}}

\* the requests that hold a unit of the semaphore
Holding == {r \in Reqs : aio.st[r] \in {"acquired", "queued", "submitted"}}

\* every request acquires one unit before it is queued and the unit is
\* returned exactly once, when its completion event is processed
UnitsOnce ==
    \A r \in Reqs :
        /\ aio.took[r] = IF aio.st[r] \in {"none", "waiting"} THEN 0 ELSE 1
        /\ aio.rel[r] = IF aio.st[r] = "done" THEN 1 ELSE 0

\* C17 as stated: the requests queued or submitted and not yet completed never
\* exceed max_aio, every unit is acquired before queueing and returned exactly
\* once on completion, and the semaphore count plus the outstanding requests
\* always equals max_aio.
C17_CountPlusOutstanding ==
    /\ Cardinality(Outstanding) <= max_aio
    /\ UnitsOnce
    /\ aio.sem + Cardinality(Outstanding) = max_aio

\* C17, amended: the requests queued or submitted and not yet completed never
\* exceed max_aio, every unit is acquired before queueing and returned exactly
\* once on completion, and the semaphore count plus the requests that hold a
\* unit (outstanding, or acquired with the queueing continuation still to run)
\* always equals max_aio.
C17_CountPlusHolding ==
    /\ Cardinality(Outstanding) <= max_aio
    /\ UnitsOnce
    /\ aio.sem >= 0
    /\ aio.sem + Cardinality(Holding) = max_aio

\* every unit is in use by a submitted request, one of them a request that
\* had to wait for a unit, and a completion has been processed
C17_Witness ==
    /\ aio.sem = 0 /\ Cardinality(Outstanding) = max_aio
    /\ \E r \in aio.waited : aio.st[r] = "submitted"
    /\ \E r \in Reqs : aio.st[r] = "done"

\* ------------------------------------------------------------ fair I/O queue
DIdx == 1..Len(ioq.last)

\* C18: every dispatch takes the head of the FIFO of the class with the
\* smallest accumulated cost / shares among the classes with queued requests,
\* the lowest class id winning a tie, and adds the request's size to the
\* accumulated cost of that class only; the requests of one class are
\* dispatched in the order they were queued.
C18_FairDispatch ==
    \A i \in DIdx :
        LET e == ioq.last[i] IN
        /\ e.cls \in e.active
        /\ e.no = e.head[e.cls]
        /\ \A d \in e.active :
              /\ e.cost[e.cls] * Shares[d] <= e.cost[d] * Shares[e.cls]
              /\ e.cost[e.cls] * Shares[d] = e.cost[d] * Shares[e.cls] => e.cls <= d
        /\ e.after = [e.cost EXCEPT ![e.cls] = @ + e.size]
        /\ e.no = e.ndisp + 1

\* a dispatch chose between both classes at equal cost / shares with costs
\* above zero, with more than one request queued in the chosen class
C18_Witness ==
    \E i \in DIdx :
        LET e == ioq.last[i] IN
        /\ e.active = Classes /\ e.cost[1] > 0
        /\ e.cost[1] * Shares[2] = e.cost[2] * Shares[1]
        /\ ioq.fifo[e.cls] # <<>>

QueuedRequests == {c \in Classes : ioq.fifo[c] # <<>>}

\* C19: the requests dispatched and not yet completed never exceed the
\* capacity, whatever the mix of local and forwarded requests and of classes;
\* requests beyond the capacity wait in the queue, and none waits while a
\* slot is free, so each completion dispatches a waiting request.
C19_CapacityBound ==
    /\ Cardinality(ioq.executing) <= _capacity
    /\ QueuedRequests # {} => Cardinality(ioq.executing) = _capacity

\* a forwarded request that waited behind a full queue has just been
\* dispatched into the slot a completion freed, and requests still wait
C19_Witness ==
    /\ Cardinality(ioq.executing) = _capacity
    /\ QueuedRequests # {}
    /\ \E i \in DIdx :
        /\ ioq.last[i].from = "forwarded"
        /\ ioq.ndisp[1] + ioq.ndisp[2] > _capacity

\* ------------------------------------------------------------- file: bulk read
\* the bytes the bulk read of [offset, offset + range_size) is to return
BulkExpected ==
    IF rd.offset < rd.length
    THEN FileBytes(rd.offset,
                   Min(rd.length, align_up(rd.offset + rd.range_size, rd.align)) - rd.offset)
    ELSE <<>>

StreamExpected ==
    LET from == Min(fin.offset, fin.length)
        to == Min(fin.offset + fin.len, fin.length) IN
    FileBytes(from, to - from)

\* C21: for a file of length F and any start, len and buffer size, the
\* buffers successive reads of the file input stream return, concatenated up
\* to the first empty one, are the file bytes [min(start, F), min(start + len,
\* F)): at every moment a prefix of them, and all of them once the empty
\* buffer has come.
C21_StreamContents ==
    /\ Len(fin.out) <= Len(StreamExpected)
    /\ fin.out = SubSeq(StreamExpected, 1, Len(fin.out))
    /\ fin.phase = "eof" => fin.out = StreamExpected

\* a stream that started at an unaligned offset and ended, by its len, at an
\* unaligned position before the file end, read in more than one buffer with
\* reads ahead of the reader
C21_Witness ==
    /\ fin.phase = "eof"
    /\ fin.offset % fin.align # 0 /\ (fin.offset + fin.len) % fin.align # 0
    /\ fin.offset + fin.len < fin.length
    /\ fin.read_ahead > 1 /\ Len(fin.reads) > 2
    /\ Len(fin.out) = fin.len

\* ------------------------------------------------------- file output stream
OIdx == 1..Len(sink.ops)

\* the bytes passed to put() before call i
RECURSIVE PutBefore(_)
PutBefore(i) ==
    IF i <= 1 THEN 0
    ELSE PutBefore(i - 1) + (IF sink.ops[i - 1].kind = "put" THEN sink.ops[i - 1].len ELSE 0)

\* the last call was a flush or a close and it has completed
Flushed ==
    /\ sink.ops # <<>>
    /\ sink.ops[Len(sink.ops)].kind # "put"
    /\ sink.ops[Len(sink.ops)].fut # "pending"

\* C22: after n bytes in total have been written and the stream has been
\* flushed or closed, with no write failed, the file's size is exactly n, for
\* n aligned, unaligned or zero; an unaligned chunk was written padded to the
\* write alignment and the file truncated afterwards.
C22_SizeAfterFlush ==
    /\ Flushed /\ ~sink.anyfail =>
          /\ sink.ops[Len(sink.ops)].fut = "ok"
          /\ sink.size = PutBefore(Len(sink.ops) + 1)
          /\ sink.size = sink._pos
    /\ \A i \in OIdx :
          sink.ops[i].kind = "put" /\ sink.ops[i].st \in {"writing", "truncating", "done"} =>
              /\ sink.ops[i].padded % sink.align = 0
              /\ sink.ops[i].padded >= sink.ops[i].len
              /\ sink.ops[i].truncate = (sink.ops[i].len % sink.align # 0)

\* with write-behind 2, three chunks, the last of them unaligned, were
\* written and the stream was closed
C22_Witness ==
    /\ Flushed /\ ~sink.anyfail
    /\ sink.write_behind = 2 /\ Len(sink.ops) = 4
    /\ sink.ops[4].kind = "close"
    /\ sink._pos % sink.align # 0
    /\ sink.size = sink._pos

\* the dma_write operations in flight
InFlight == {i \in OIdx : sink.ops[i].st = "writing"}

\* C23: with write_behind = N > 0 at most N dma_write operations are in
\* flight, and every write is issued at the file position that is the sum of
\* the sizes of the buffers passed to put() before it; with N = 0 a put()
\* completes only when its own write has completed.
C23_WriteBehind ==
    /\ sink.write_behind > 0 => Cardinality(InFlight) <= sink.write_behind
    /\ \A i \in OIdx :
          sink.ops[i].kind = "put" =>
              /\ sink.ops[i].st \in {"writing", "truncating", "done", "failed"} =>
                    sink.ops[i].pos = PutBefore(i)
              /\ sink.write_behind = 0 /\ sink.ops[i].fut # "pending" =>
                    sink.ops[i].st \in {"done", "failed"}

\* two writes are in flight under write-behind 2 while a third put waits
C23_Witness ==
    /\ sink.write_behind = 2 /\ Cardinality(InFlight) = 2
    /\ \E i \in OIdx : sink.ops[i].kind = "put" /\ sink.ops[i].st = "waiting"
    /\ \E i \in InFlight : sink.ops[i].pos > 0

\* C29: flush() alone, close() alone and flush() followed by close() each
\* eventually complete after any sequence of put() calls, and after a
\* completed flush the write-behind semaphore holds write_behind units again,
\* also when one of the background writes failed.
C29_FlushAndCloseComplete ==
    /\ [](/\ Flushed /\ sink.ops[Len(sink.ops)].kind = "flush"
          /\ sink.ops[Len(sink.ops)].fut = "ok"
          => sink.sem = sink.write_behind)
    /\ \A i \in SinkOps :
          (i \in OIdx /\ sink.ops[i].kind # "put") ~> (i \in OIdx /\ sink.ops[i].fut # "pending")

\* a background write failed, the flush after it completed with that failure
\* and left the semaphore without units, and the close that followed waits
\* for them with no write in flight and nothing left to run
C29_Witness ==
    /\ sink.write_behind > 0 /\ sink.sem = 0 /\ Len(sink.ops) = 3
    /\ sink.ops[1].kind = "put" /\ sink.ops[1].st = "failed"
    /\ sink.ops[2].kind = "flush" /\ sink.ops[2].fut = "failed"
    /\ sink.ops[3].kind = "close" /\ sink.ops[3].st = "waiting"
    /\ ~ENABLED SinkStep

\* --------------------------------------------------------- parallel_for_each
\* C24: the future parallel_for_each returned resolves only after every
\* sub-operation it started has completed, also when one failed early; it is
\* failed, with the failure one of the failing sub-operations raised, when
\* any failed, and successful otherwise.
C24_WaitsForAll ==
    pfe.result \in {"ok", "failed"} =>
        /\ \A i \in 1..pfe.n : pfe.sub[i] \in {"ok", "failed"}
        /\ pfe.result = "failed" <=> \E i \in 1..pfe.n : pfe.sub[i] = "failed"
        /\ pfe.result = "failed" => pfe.ex \in 1..pfe.n /\ pfe.sub[pfe.ex] = "failed"

\* a sub-operation failed and was counted while others still ran, two failed
\* in all, and the result is failed
C24_Witness ==
    /\ pfe.result = "failed" /\ pfe.early /\ pfe.n > 2
    /\ Cardinality({i \in SubOps : pfe.sub[i] = "failed"}) = 2

\* -------------------------------------------------------------------- fibers
\* what func gives: the failure of a future it waited for, else what it
\* returns or throws
FuncOutcome(F) == IF F.pc < Len(F.func.gets) THEN Failure ELSE F.func.ret

\* C25: the future of async(func, args) resolves with what func returned, or
\* with the failure it raised, and only after the fiber has run to its end
\* and has been joined; the work record lives until then, and the thread is
\* joined before it is destroyed.
C25_AsyncResult ==
    \A f \in Fibers :
        LET F == th.fib[f] IN
        /\ F.result # 0 => /\ F.st = "ended" /\ F._done /\ F._joined
                           /\ F.result = FuncOutcome(F)
        /\ F.work = "destroyed" => F.result # 0
        /\ F.st = "parked" => F.work = "alive"
        /\ ~F.assert_failed

\* a fiber that parked has ended with a value and its future carries it,
\* and one whose awaited future failed has a failed future
C25_Witness ==
    /\ th.fib[1].parks > 0 /\ th.fib[1].result = 2 /\ th.fib[1].work = "destroyed"
    /\ th.fib[2].parks > 0 /\ th.fib[2].result = Failure /\ th.fib[2].func.ret = 2

NotReadyGets(F, n) == Cardinality({k \in 1..n : ~F.func.gets[k]})
ResumeTasks(f) == Cardinality({i \in 1..Len(th.q) : th.q[i] = <<"resume", f>>})

\* C26: a fiber calling get() on a future that is not ready is suspended and
\* is switched in again exactly once, after the future was fulfilled and
\* never before; get() on a ready future does not suspend.
C26_ParkAndResume ==
    \A f \in Fibers :
        LET F == th.fib[f]
            parked == F.st = "parked" IN
        /\ ~F.early
        /\ F.st # "none" =>
             F.parks = NotReadyGets(F, IF parked THEN F.pc + 1 ELSE F.pc)
                       + (IF F.st = "ended" /\ F.pc < Len(F.func.gets) THEN 1 ELSE 0)
        /\ F.resumes + ResumeTasks(f) = F.parks - (IF parked /\ F.awaited = "pending" THEN 1 ELSE 0)
        /\ parked /\ F.awaited = "pending" => ResumeTasks(f) = 0
        /\ ~parked => ResumeTasks(f) = 0

\* fiber 1 parked twice and was resumed twice, a ready get() between did not
\* park it, and another task or fiber ran while it was parked
C26_Witness ==
    /\ th.fib[1].func.gets = <<FALSE, FALSE>> /\ th.fib[1].st = "ended"
    /\ th.fib[1].resumes = 2 /\ th.fib[1].meanwhile
    /\ th.fib[2].func.gets = <<TRUE, FALSE>> /\ th.fib[2].parks = 1 /\ th.fib[2].st = "ended"
    /\ th.others > 0

AppFailed == app.fut \in {"failed", "thrown_std", "thrown_other"}

\* C28: when the application function fails, by throwing or with a failed
\* future, the exception text is printed and the run ends with exit code 1.
C28_FailureExitsWithOne ==
    AppFailed /\ app.phase \in {"handled", "returned"} =>
        /\ app.printed = "exception" /\ app.stopped /\ app._return = 1
        /\ app.phase = "returned" => app.ret = 1

\* the same for failures that are a std::exception or arrive in the future
C28_StdFailureExitsWithOne ==
    AppFailed /\ app.fut # "thrown_other" /\ app.phase \in {"handled", "returned"} =>
        /\ app.printed = "exception" /\ app.stopped /\ app._return = 1
        /\ app.phase = "returned" => app.ret = 1

\* the application function threw an object that is no std::exception: the
\* chain is done, nothing was printed and exit() was not called
C28_Witness ==
    /\ app.fut = "thrown_other" /\ app.phase = "handled"
    /\ app.printed = "none" /\ ~app.stopped

C31_PollersNotStarved ==
    /\ [](~tq.overrun)
    /\ \A p \in QPollers : []<>(tq.pc = p)

\* a batch of several tasks was cut by the flag with tasks still queued, and
\* the pollers are being polled
C31_Witness ==
    /\ tq.fired /\ tq.batch > 1 /\ tq.ntasks = MaxPending /\ tq.pc = MaxPollers

FailedWrites == {i \in OIdx : sink.ops[i].kind = "put" /\ sink.ops[i].st = "failed"}
FailedCalls == {i \in OIdx : sink.ops[i].fut = "failed"}

\* the failure is delivered at most once, to the first call that finds it,
\* and it is the failure of the earliest-issued failed write
DeliveredOnce ==
    /\ Cardinality(FailedCalls) <= 1
    /\ \A i \in FailedCalls :
          /\ \A j \in 1..(i - 1) : sink.ops[j].st # "skipped"
          /\ merged_failure(sink, sink.ops[i].ret) # 0
          /\ \A j \in FailedWrites : merged_failure(sink, sink.ops[i].ret) <= j

ReadsInFlight == {i \in 1..Len(fin.reads) : ~fin.reads[i].ready}

\* C34: close() of the file input stream resolves only when no read that was
\* issued is still in progress, its promise is fulfilled exactly once, with
\* no read or several in flight when close() is called, and after close() no
\* read is issued, also not by the continuation of a read in flight.
C34_CloseWaitsForReads ==
    /\ fin._reads_in_progress = Cardinality(ReadsInFlight)
    /\ fin._done = "set" => ReadsInFlight = {} /\ fin.sets = 1
    /\ fin._done = "pending" => ReadsInFlight # {} /\ fin.sets = 0
    /\ fin._done = "none" => fin.sets = 0
    /\ fin._done # "none" => Len(fin.reads) = fin.nreads0

\* close() was called with two reads in flight and more of the range to
\* read, and has resolved
C34_Witness ==
    /\ fin._done = "set" /\ fin._remain > 0 /\ fin.read_ahead = 2
    /\ Cardinality({i \in 1..Len(fin.reads) : fin.reads[i].end > fin.reads[i].start}) >= 2
    /\ fin.out = <<>>

\* ------------------------------------------- the read-copy loop and errors
\* what is left of the loop: the bytes to read, and one for the end of file
LoopLeft(S) == IF done(S) THEN 0 ELSE S._to_read - S.pos + 1

\* C35: the read-copy loop of dma_read_bulk terminates for every file length,
\* offset, range and pattern of short reads: each round appends at least one
\* byte or sets eof, pos never exceeds the size of the buffer, left_to_read()
\* is positive whenever the body of the loop runs.
C35_LoopTerminates ==
    /\ [](rd.pos <= Len(rd.buf))
    /\ [](rd.phase = "loop" /\ ~done(rd) => left_to_read(rd) > 0)
    /\ [][rd.phase = "loop" /\ rd'.rounds > rd.rounds /\ rd'.phase = "loop" =>
            /\ rd'.pos > rd.pos \/ (rd'.eof /\ ~rd.eof)
            /\ LoopLeft(rd') < LoopLeft(rd)]_vars
    /\ (rd.phase = "first") ~> (rd.phase \in {"done", "failed"})

\* the loop ran three rounds that each appended bytes, and the read returned
C35_Witness ==
    /\ rd.phase = "done" /\ rd.rounds >= 3 /\ ~rd.eof
    /\ rd.offset % rd.align # 0 /\ Len(rd.result) > 0

\* C36: read_maybe_eof turns EINVAL into a successful empty buffer, which the
\* bulk read takes as the end of the file, turns a read of n bytes into a
\* buffer of exactly n bytes, and passes every other failure on, so that a
\* bulk read that meets such an error fails and returns no partial data.
C36_ReadMaybeEof ==
    rd.rounds > 0 =>
        /\ rd.last.err = "EINVAL" => ~rd.last.failed /\ rd.last.buf = <<>> /\ rd.eof
                                     /\ rd.phase # "failed"
        /\ rd.last.err = "none" => ~rd.last.failed /\ Len(rd.last.buf) = rd.last.n
        /\ rd.last.err \in IoErrors =>
              /\ rd.last.failed /\ rd.phase = "failed" /\ rd.err = rd.last.err
              /\ rd.result = <<>>
        /\ rd.phase = "failed" => rd.last.err \in IoErrors

\* a bulk read that had read bytes failed in a later round with EIO
C36_Witness ==
    /\ rd.phase = "failed" /\ rd.err = "EIO" /\ rd.rounds >= 2 /\ rd.pos > rd._front

\* a round of a bulk read met EINVAL at the end of a file of unaligned length
C36_WitnessEinval ==
    /\ rd.phase = "done" /\ rd.last.err = "EINVAL" /\ Len(rd.result) > 0

\* ----------------------------------------------------------------------- arp
ArpFuts == 1..Len(arp.futs)
WaitersOf(a) == {arp._in_progress[a]._waiters[i] : i \in 1..Len(arp._in_progress[a]._waiters)}
LastFut == arp.futs[Len(arp.futs)]

\* C37: the future of each lookup is resolved exactly once: at once with the
\* cached address; at once with arp_queue_full_error when max_waiters lookups
\* of the address wait; else with the address learn() is given or with
\* arp_timeout_error when the periodic timer fires next. learn() cancels the
\* timer and removes the entry in progress; only the first lookup of an
\* unresolved address arms the timer and sends a query at once.
C37_LookupResolvedOnce ==
    /\ ~arp.assert_failed
    /\ \A i \in ArpFuts :
          /\ arp.futs[i].nres = IF arp.futs[i].st = "pending" THEN 0 ELSE 1
          /\ arp.futs[i].st = "pending" <=> i \in WaitersOf(arp.futs[i].addr)
    /\ \A a \in L3Addrs :
          /\ arp._in_progress[a].present <=> arp._in_progress[a].armed
          /\ Len(arp._in_progress[a]._waiters) = Cardinality(WaitersOf(a))
          /\ Cardinality(WaitersOf(a)) <= max_waiters
          /\ WaitersOf(a) # {} => arp._in_progress[a].armed
          /\ \A i \in WaitersOf(a) : arp.futs[i].addr = a
    /\ arp.last.op = "lookup" =>
          /\ arp.last.cached # NoEntry =>
                LastFut.st = "value" /\ LastFut.val = arp.last.cached /\ ~arp.last.sent
          /\ arp.last.cached = NoEntry =>
                /\ LastFut.st = IF arp.last.nwait >= max_waiters THEN "full" ELSE "pending"
                /\ arp.last.sent <=> arp.last.first_request
                /\ arp.last.armed <=> arp.last.first_request
    /\ arp.last.op = "learn" =>
          /\ ~arp._in_progress[arp.last.addr].present
          /\ Cardinality(arp.last.woken) = arp.last.nwait
          /\ \A i \in arp.last.woken : arp.futs[i].st = "value" /\ arp.futs[i].val = arp.last.hw
    /\ arp.last.op = "timeout" =>
          /\ arp._in_progress[arp.last.addr].present /\ WaitersOf(arp.last.addr) = {}
          /\ Cardinality(arp.last.woken) = arp.last.nwait
          /\ \A i \in arp.last.woken : arp.futs[i].st = "timeout"

\* max_waiters lookups of one address waited, one more was refused with a
\* full queue, and a reply gave the waiting ones the address
C37_Witness ==
    /\ arp.last.op = "learn" /\ Cardinality(arp.last.woken) = max_waiters
    /\ \E i \in ArpFuts : arp.futs[i].st = "full" /\ arp.futs[i].addr = arp.last.addr

\* a lookup timed out and a later lookup of the same address was given the
\* address of a reply
C37_WitnessTimeout ==
    /\ arp.last.op = "learn" /\ arp.last.woken # {}
    /\ \E j \in ArpFuts : arp.futs[j].st = "timeout" /\ arp.futs[j].addr = arp.last.addr

\* C38: the table always maps the L3 broadcast address to the Ethernet
\* broadcast address and the current self address to the own hardware
\* address, so that a lookup of either returns a ready future and sends no
\* query; no address is in the table and in the map of resolutions in
\* progress at once.
C38_TableInvariants ==
    /\ arp._table[L3Broadcast] = EthBroadcast
    /\ arp._l3self # L3Broadcast => arp._table[arp._l3self] = l2self
    /\ arp.last.op = "lookup" /\ arp.last.addr \in {L3Broadcast, arp._l3self} =>
          LastFut.st = "value" /\ ~arp.last.sent
    /\ \A a \in L3Addrs : ~(arp._table[a] # NoEntry /\ arp._in_progress[a].present)

\* the host was given its address, a lookup of the broadcast address found no
\* entry and sent a query
C38_Witness ==
    /\ arp._l3self # L3Broadcast /\ arp.last.op = "lookup" /\ arp.last.addr = L3Broadcast
    /\ arp.last.sent /\ LastFut.st = "pending"

\* -------------------------------------------------------------------- iotune
\* C40: when the exploratory phase of iotune ends, the entry of the best
\* result in _all_results has a predecessor and a successor, whatever the
\* runs measured, also with the best result at the highest concurrency tested
\* or with 0 IOPS in every run, so that find_max_region queues a finite,
\* well-defined range.
C40_BestHasNeighbours ==
    mgr.refined => mgr.has_prev /\ mgr.has_next

\* what holds: the best result has an entry, and it has both neighbours
\* when it was measured below the highest concurrency tested
C40_BestIsEntry ==
    /\ mgr._all_results[mgr._best_result.concurrency] # NoResult
    /\ mgr.refined /\ mgr.rounds = Len(irange(initial_step, initial_limit, initial_step)) + 1
         /\ mgr._best_result.IOPS > 0
         /\ mgr._best_result.concurrency < initial_limit - initial_step
         => mgr.has_prev /\ mgr.has_next

\* the exploratory phase ended with the best result measured at the highest
\* concurrency tested: its entry is the last of _all_results
C40_Witness ==
    /\ mgr.refined /\ ~mgr.has_next /\ mgr.has_prev
    /\ mgr._best_result.IOPS > 0
    /\ mgr._current_test_phase = "find_max_point"

\* the exploratory phase ended with 0 IOPS in every run: the best result is
\* the zero point, the first entry
C40_WitnessZero ==
    /\ mgr.refined /\ ~mgr.has_prev /\ mgr._best_result.IOPS = 0

\* ------------------------------------------------------- the threads of iotune
Threads == {t \in Tids : t < tune.n}
\* the threads that have subtracted 1 in this round and not yet added it
Counted == {t \in Threads : tune.pc[t] \in {"spin", "io", "finish", "wait_finish", "analyze"}}
\* the threads between the start barrier and the results barrier
InRound == {t \in Threads : tune.pc[t] \notin {"start", "wait_start", "decide", "wait_results", "exit"}}

\* no thread is in a round: each has ended, or has finished MaxRounds rounds,
\* or the process was killed by a division by zero
RoundsOver ==
    \/ tune.crashed
    \/ tune.n > 0 /\ \A t \in Threads :
            tune.pc[t] = "exit" \/ (tune.pc[t] = "start" /\ tune.round[t] = MaxRounds)

====
